---- MODULE Spec2Model ----
(***************************************************************************)
(* Model of the AIBL clinical-metadata reconciliation code of clinica:     *)
(* clinica/iotools/converters/aibl_to_bids/utils/clinical.py and the       *)
(* identifier translator it calls (clinica.iotools.bids_utils).            *)
(*                                                                         *)
(* Strings whose content the code parses are sequences of one-character    *)
(* strings.  A table cell is a record [kind, s, n]: kind is "none"         *)
(* (Python None), "nan" (a blank cell as pandas reads it), "str" (text, in *)
(* s) or "int" (a number, in n).                                           *)
(***************************************************************************)
EXTENDS Integers, Sequences, FiniteSets, TLC

VARIABLES
    pc,         \* position of the operation under study
    given,      \* the inputs of the call as numbers, before they are written as text
    df,         \* table handed to _set_age_from_birth
    ageOut,     \* what _set_age_from_birth returned or raised
    birthArg,   \* birth_date argument of _compute_age_at_exam
    examArg,    \* exam_date argument of _compute_age_at_exam
    ageRes,     \* what _compute_age_at_exam returned or raised
    clinical,   \* the clinical data directory: file pattern -> file
    ridArg,     \* rid argument of the exam-date functions
    sesArg,     \* session_id argument of the exam-date functions
    dateArg,    \* examination_date argument of _complete_examination_dates
    findRes,    \* what the exam-date function returned
    probed,     \* the clinical files the call has read, in order
    study,      \* the study of the identifier translator
    nativeId,   \* a native identifier handed to from_original_study_id
    otherId,    \* a second native identifier of the same study
    bidsId,     \* what from_original_study_id returned or raised for nativeId
    otherBidsId,\* what from_original_study_id returned or raised for otherId
    backId,     \* what to_original_study_id returned for bidsId
    bids,       \* the BIDS directory: subject directories and their sessions
    specification, \* the specification file the call loads
    cursor,     \* create_sessions_tsv_file: position in the list of subjects
    written,    \* the sessions files in the BIDS directory: subject -> table
    err,        \* the exception the call raised, or "no"
    errMsg,     \* the values that the message of the exception names
    participantsTsv, \* participants.tsv in the BIDS directory, when it exists
    scansTsv,   \* the subjects whose scans files exist in the BIDS directory
    delete_non_bids_info \* argument of create_participants_tsv_file

ageVars == <<df, ageOut, birthArg, examArg, ageRes>>
findVars == <<clinical, ridArg, sesArg, dateArg, findRes, probed>>
idVars == <<study, nativeId, otherId, bidsId, otherBidsId, backId>>
sessVars == <<bids, specification, cursor, written, err, errMsg,
              participantsTsv, scansTsv, delete_non_bids_info>>
vars == <<pc, given, ageVars, findVars, idVars, sessVars>>
notAgeVars == <<findVars, idVars, sessVars>>
notFindVars == <<ageVars, idVars, sessVars>>
notIdVars == <<ageVars, findVars, sessVars>>

----------------------------------------------------------------------------
(* Cells *)

NoneV == [kind |-> "none", s |-> <<>>, n |-> 0]
NaN == [kind |-> "nan", s |-> <<>>, n |-> 0]
StrV(cs) == [kind |-> "str", s |-> cs, n |-> 0]
IntV(i) == [kind |-> "int", s |-> <<>>, n |-> i]

\* pandas isna / isnull: None and NaN are missing
IsNull(c) == c.kind \in {"none", "nan"}

\* Python truthiness of a cell value (NaN is a non-zero float: true)
Truthy(c) ==
    CASE c.kind = "none" -> FALSE
      [] c.kind = "nan" -> TRUE
      [] c.kind = "str" -> Len(c.s) > 0
      [] OTHER -> c.n # 0

\* the AIBL sentinel, as a number and as text
SentinelInt == IntV(0 - 4)
SentinelStr == StrV(<<"-", "4">>)
IsSentinel(c) == c = SentinelInt \/ c = SentinelStr

----------------------------------------------------------------------------
(* Text *)

Digits == <<"0", "1", "2", "3", "4", "5", "6", "7", "8", "9">>
IsDigit(ch) == \E i \in 1..10 : Digits[i] = ch
DigitVal(ch) == (CHOOSE i \in 1..10 : Digits[i] = ch) - 1
AllDigits(cs) == \A i \in 1..Len(cs) : IsDigit(cs[i])

\* text that the code never takes apart is kept whole
Txt(t) == StrV(<<t>>)

\* n written with exactly w digits (n < 10^w)
RECURSIVE Pad(_, _)
Pad(n, w) == IF w = 0 THEN <<>> ELSE Append(Pad(n \div 10, w - 1), Digits[(n % 10) + 1])

RECURSIVE ParseNat(_)
ParseNat(cs) ==
    IF cs = <<>> THEN 0
    ELSE 10 * ParseNat(SubSeq(cs, 1, Len(cs) - 1)) + DigitVal(cs[Len(cs)])

\* the fields of cs between the occurrences of sep (str.split)
RECURSIVE Split(_, _)
Split(cs, sep) ==
    IF \A i \in 1..Len(cs) : cs[i] # sep THEN <<cs>>
    ELSE LET p == CHOOSE i \in 1..Len(cs) :
                      cs[i] = sep /\ \A j \in 1..(i - 1) : cs[j] # sep
         IN <<SubSeq(cs, 1, p - 1)>> \o Split(SubSeq(cs, p + 1, Len(cs)), sep)

----------------------------------------------------------------------------
(* Results of a call: a returned value or a raised exception *)

Ret(v) == [raised |-> "no", val |-> v]
Raise(e) == [raised |-> e, val |-> NoneV]
NoCall == [raised |-> "not called", val |-> NoneV]

----------------------------------------------------------------------------
(* datetime.strptime for the two formats the code uses *)

IsLeap(y) == (y % 4 = 0 /\ y % 100 # 0) \/ y % 400 = 0

DaysInMonth(y, m) ==
    IF m = 2 THEN (IF IsLeap(y) THEN 29 ELSE 28)
    ELSE IF m \in {4, 6, 9, 11} THEN 30 ELSE 31

\* %Y: exactly four digits, a year from 1 on
YearField(cs) == Len(cs) = 4 /\ AllDigits(cs) /\ ParseNat(cs) >= 1

\* %m, %d: one or two digits, a value from 1 on
SmallField(cs) == Len(cs) \in {1, 2} /\ AllDigits(cs) /\ ParseNat(cs) >= 1

\* strptime(c, "/%Y"): the year, or the exception
StrptimeBirth(c) ==
    IF c.kind # "str" THEN [raised |-> "TypeError", year |-> 0]
    ELSE LET f == Split(c.s, "/")
         IN IF Len(f) = 2 /\ f[1] = <<>> /\ YearField(f[2])
            THEN [raised |-> "no", year |-> ParseNat(f[2])]
            ELSE [raised |-> "ValueError", year |-> 0]

\* strptime(c, "%m/%d/%Y"): the year, or the exception
StrptimeExam(c) ==
    IF c.kind # "str" THEN [raised |-> "TypeError", year |-> 0]
    ELSE LET f == Split(c.s, "/")
         IN IF /\ Len(f) = 3
               /\ SmallField(f[1]) /\ ParseNat(f[1]) <= 12
               /\ SmallField(f[2]) /\ YearField(f[3])
               /\ ParseNat(f[2]) <= DaysInMonth(ParseNat(f[3]), ParseNat(f[1]))
            THEN [raised |-> "no", year |-> ParseNat(f[3])]
            ELSE [raised |-> "ValueError", year |-> 0]

\* _compute_age_at_exam with a bug: the age counts the days of the exam year
\* (whole days between the two dates, divided by 365)
ComputeAgeAtExamByDays(birth_date, exam_date) ==
    IF Truthy(birth_date) /\ Truthy(exam_date)
    THEN LET date_of_birth == StrptimeBirth(birth_date)
             exam == StrptimeExam(exam_date)
         IN IF date_of_birth.raised # "no" THEN Raise(date_of_birth.raised)
            ELSE IF exam.raised # "no" THEN Raise(exam.raised)
            ELSE Ret(IntV(exam.year - date_of_birth.year
                          + (IF Split(exam_date.s, "/")[1] = <<"1", "2">> THEN 1 ELSE 0)))
    ELSE Ret(NoneV)

\* _compute_age_at_exam(birth_date, exam_date)
ComputeAgeAtExam(birth_date, exam_date) ==
    IF Truthy(birth_date) /\ Truthy(exam_date)
    THEN LET date_of_birth == StrptimeBirth(birth_date)
             exam == StrptimeExam(exam_date)
         IN IF date_of_birth.raised # "no" THEN Raise(date_of_birth.raised)
            ELSE IF exam.raised # "no" THEN Raise(exam.raised)
            ELSE Ret(IntV(exam.year - date_of_birth.year))
    ELSE Ret(NoneV)

----------------------------------------------------------------------------
(* Tables (pandas DataFrame): the column names in order, the index labels *)
(* and one row per index label, a function from column name to cell       *)

Frame(cols, idx, rows) == [columns |-> cols, index |-> idx, rows |-> rows]
Range(f) == {f[i] : i \in DOMAIN f}
HasColumn(d, c) == c \in Range(d.columns)
Column(d, c) == [i \in 1..Len(d.rows) |-> d.rows[i][c]]

EmptyFrame == Frame(<<>>, <<>>, <<>>)

RECURSIVE Without(_, _)
Without(seq, x) ==
    IF seq = <<>> THEN <<>>
    ELSE IF seq[1] = x THEN Without(Tail(seq), x)
    ELSE <<seq[1]>> \o Without(Tail(seq), x)

\* d[c] = vals: c is replaced in place when d has it, appended otherwise
SetColumn(d, c, vals) ==
    Frame(IF HasColumn(d, c) THEN d.columns ELSE Append(d.columns, c),
          d.index,
          [i \in 1..Len(d.rows) |->
              [k \in (DOMAIN d.rows[i]) \cup {c} |->
                  IF k = c THEN vals[i] ELSE d.rows[i][k]]])

\* d.drop(labels=c, axis=1) with a bug: the column stays
DropColumnKept(d, c) == d

\* d.drop(labels=c, axis=1)
DropColumn(d, c) ==
    Frame(Without(d.columns, c),
          d.index,
          [i \in 1..Len(d.rows) |->
              [k \in (DOMAIN d.rows[i]) \ {c} |-> d.rows[i][k]]])

\* Series.ffill(): a missing cell takes the last non-missing cell before it
Ffill(vals) ==
    [i \in 1..Len(vals) |->
        IF ~IsNull(vals[i]) \/ \A j \in 1..(i - 1) : IsNull(vals[j]) THEN vals[i]
        ELSE vals[CHOOSE j \in 1..(i - 1) :
                      ~IsNull(vals[j]) /\ \A k \in (j + 1)..(i - 1) : IsNull(vals[k])]]

\* len(df["date_of_birth"].dropna().unique()) <= 1, with a bug: two values pass
BirthIsUnambiguousLoose(dob) ==
    Cardinality({dob[i] : i \in {j \in 1..Len(dob) : ~IsNull(dob[j])}}) <= 2

\* len(df["date_of_birth"].dropna().unique()) <= 1
BirthIsUnambiguous(dob) ==
    Cardinality({dob[i] : i \in {j \in 1..Len(dob) : ~IsNull(dob[j])}}) <= 1

\* _set_age_from_birth(df) with a bug: a table without the two date columns
\* gets an empty age column and no exception is raised
SetAgeFromBirthLenient(d) ==
    IF ~HasColumn(d, "date_of_birth") \/ ~HasColumn(d, "examination_date")
    THEN [raised |-> "no", msg |-> <<>>,
          df |-> DropColumn(SetColumn(d, "age", [i \in 1..Len(d.rows) |-> NoneV]),
                            "date_of_birth")]
    ELSE LET dob == Column(d, "date_of_birth")
         IN IF BirthIsUnambiguous(dob)
            THEN LET filled == SetColumn(d, "date_of_birth", Ffill(dob))
                     ages == [i \in 1..Len(d.rows) |->
                                 ComputeAgeAtExam(filled.rows[i]["date_of_birth"],
                                                  filled.rows[i]["examination_date"])]
                     bad == {i \in 1..Len(d.rows) : ages[i].raised # "no"}
                 IN IF bad # {}
                    THEN [raised |-> ages[CHOOSE i \in bad : \A j \in bad : i <= j].raised,
                          df |-> filled, msg |-> <<>>]
                    ELSE [raised |-> "no", msg |-> <<>>,
                          df |-> DropColumn(
                                   SetColumn(filled, "age",
                                             [i \in 1..Len(d.rows) |-> ages[i].val]),
                                   "date_of_birth")]
            ELSE [raised |-> "no", msg |-> <<>>,
                  df |-> DropColumn(
                           SetColumn(d, "age", [i \in 1..Len(d.rows) |-> NoneV]),
                           "date_of_birth")]

\* _set_age_from_birth(df): the table returned, or the exception raised
SetAgeFromBirth(d) ==
    IF ~HasColumn(d, "date_of_birth") \/ ~HasColumn(d, "examination_date")
    THEN [raised |-> "ValueError", df |-> d,
          msg |-> <<"date_of_birth", "examination_date">>]
    ELSE LET dob == Column(d, "date_of_birth")
         IN IF BirthIsUnambiguous(dob)
            THEN LET filled == SetColumn(d, "date_of_birth", Ffill(dob))
                     ages == [i \in 1..Len(d.rows) |->
                                 ComputeAgeAtExam(filled.rows[i]["date_of_birth"],
                                                  filled.rows[i]["examination_date"])]
                     bad == {i \in 1..Len(d.rows) : ages[i].raised # "no"}
                 IN IF bad # {}
                    THEN [raised |-> ages[CHOOSE i \in bad : \A j \in bad : i <= j].raised,
                          df |-> filled, msg |-> <<>>]
                    ELSE [raised |-> "no", msg |-> <<>>,
                          df |-> DropColumn(
                                   SetColumn(filled, "age",
                                             [i \in 1..Len(d.rows) |-> ages[i].val]),
                                   "date_of_birth")]
            ELSE [raised |-> "no", msg |-> <<>>,
                  df |-> DropColumn(
                           SetColumn(d, "age", [i \in 1..Len(d.rows) |-> NoneV]),
                           "date_of_birth")]

----------------------------------------------------------------------------
(* The identifier translator, bids_id_factory(study): one variant per      *)
(* study.  An identifier is a sequence of characters.                      *)

Letters ==
    { "a", "b", "c", "d", "e", "f", "g", "h", "i", "j", "k", "l", "m",
      "n", "o", "p", "q", "r", "s", "t", "u", "v", "w", "x", "y", "z",
      "A", "B", "C", "D", "E", "F", "G", "H", "I", "J", "K", "L", "M",
      "N", "O", "P", "Q", "R", "S", "T", "U", "V", "W", "X", "Y", "Z" }
\* \w of a regular expression
IsWordChar(ch) == ch \in Letters \/ IsDigit(ch) \/ ch = "_"
AllWord(cs) == \A i \in 1..Len(cs) : IsWordChar(cs[i])
StartsWith(cs, pre) == Len(cs) >= Len(pre) /\ SubSeq(cs, 1, Len(pre)) = pre
After(cs, pre) == SubSeq(cs, Len(pre) + 1, Len(cs))
\* str.replace("_", "")
StripUnderscores(cs) == Without(cs, "_")

StudyNames == {"ADNI", "NIFD", "AIBL", "UKB", "GENFI", "OASIS3", "HABS", "OASIS", "IXI"}

SubPrefix == <<"s", "u", "b", "-">>
StudyChars(st) ==
    CASE st = "ADNI" -> <<"A", "D", "N", "I">>
      [] st = "NIFD" -> <<"N", "I", "F", "D">>
      [] st = "AIBL" -> <<"A", "I", "B", "L">>
      [] st = "UKB" -> <<"U", "K", "B">>
      [] st = "HABS" -> <<"H", "A", "B", "S">>
      [] st = "OASIS" -> <<"O", "A", "S", "I", "S">>
      [] OTHER -> <<>>

\* the grammar of the native identifiers of a study
ValidStudyId(st, id) ==
    CASE st = "ADNI" ->
            /\ Len(id) = 10 /\ AllDigits(SubSeq(id, 1, 3))
            /\ SubSeq(id, 4, 6) = <<"_", "S", "_">> /\ AllDigits(SubSeq(id, 7, 10))
      [] st = "NIFD" ->
            /\ Len(id) = 8 /\ IsDigit(id[1])
            /\ SubSeq(id, 2, 4) = <<"_", "S", "_">> /\ AllDigits(SubSeq(id, 5, 8))
      [] st = "AIBL" -> AllDigits(id)
      [] st = "UKB" -> AllDigits(id)
      [] st = "GENFI" -> AllWord(id)
      [] st = "OASIS3" ->
            Len(id) = 8 /\ StartsWith(id, <<"O", "A", "S", "3">>) /\ AllDigits(After(id, <<"O", "A", "S", "3">>))
      [] st = "HABS" -> StartsWith(id, <<"P", "_">>) /\ AllWord(After(id, <<"P", "_">>))
      [] st = "OASIS" ->
            /\ Len(id) = 13 /\ StartsWith(id, <<"O", "A", "S", "1", "_">>)
            /\ AllDigits(SubSeq(id, 6, 9)) /\ SubSeq(id, 10, 12) = <<"_", "M", "R">>
            /\ IsDigit(id[13])
      [] st = "IXI" ->
            Len(id) = 6 /\ StartsWith(id, <<"I", "X", "I">>) /\ AllDigits(After(id, <<"I", "X", "I">>))

\* the letters of the name of a study
StudyNameChars(st) ==
    CASE st = "ADNI" -> <<"A", "D", "N", "I">>
      [] st = "NIFD" -> <<"N", "I", "F", "D">>
      [] st = "AIBL" -> <<"A", "I", "B", "L">>
      [] st = "UKB" -> <<"U", "K", "B">>
      [] st = "GENFI" -> <<"G", "E", "N", "F", "I">>
      [] st = "OASIS3" -> <<"O", "A", "S", "I", "S", "3">>
      [] st = "HABS" -> <<"H", "A", "B", "S">>
      [] st = "OASIS" -> <<"O", "A", "S", "I", "S">>
      [] st = "IXI" -> <<"I", "X", "I">>

\* the canonical identifier with a bug: every study gets the prefix, the
\* name of the study and the native identifier without its separators
CanonicalIdUniform(st, id) ==
    SubPrefix \o StudyNameChars(st) \o StripUnderscores(id)

\* the canonical identifier of a valid native identifier
CanonicalId(st, id) ==
    CASE st \in {"ADNI", "NIFD"} -> SubPrefix \o StudyChars(st) \o StripUnderscores(id)
      [] st \in {"AIBL", "UKB"} -> SubPrefix \o StudyChars(st) \o id
      [] st \in {"GENFI", "OASIS3", "IXI"} -> SubPrefix \o id
      [] st = "HABS" -> SubPrefix \o StudyChars(st) \o After(id, <<"P", "_">>)
      [] st = "OASIS" -> SubPrefix \o StudyChars(st) \o <<"1">> \o SubSeq(id, 6, 9)

\* from_original_study_id with a bug: an identifier that fails the grammar is
\* translated all the same
FromOriginalStudyIdUnchecked(st, id) ==
    Ret(StrV(CanonicalId(st, id)))

\* bids_id_factory(study).from_original_study_id(study_id)
FromOriginalStudyId(st, id) ==
    IF ValidStudyId(st, id) THEN Ret(StrV(CanonicalId(st, id)))
    ELSE Raise("ValueError")

\* bids_id_factory(study)(bids_id): the validation of a canonical identifier
ValidBidsId(st, b) ==
    /\ StartsWith(b, SubPrefix \o StudyChars(st))
    /\ LET rest == After(b, SubPrefix \o StudyChars(st))
       IN CASE st = "ADNI" ->
                  /\ Len(rest) = 8 /\ AllDigits(SubSeq(rest, 1, 3))
                  /\ rest[4] = "S" /\ AllDigits(SubSeq(rest, 5, 8))
            [] st = "NIFD" ->
                  /\ Len(rest) = 6 /\ IsDigit(rest[1])
                  /\ rest[2] = "S" /\ AllDigits(SubSeq(rest, 3, 6))
            [] st \in {"AIBL", "UKB"} -> AllDigits(rest)
            [] st \in {"GENFI", "HABS"} -> AllWord(rest)
            [] st = "OASIS3" ->
                  Len(rest) = 8 /\ StartsWith(rest, <<"O", "A", "S", "3">>) /\ AllDigits(After(rest, <<"O", "A", "S", "3">>))
            [] st = "OASIS" -> Len(rest) = 5 /\ rest[1] = "1" /\ AllDigits(Tail(rest))
            [] st = "IXI" ->
                  Len(rest) = 6 /\ StartsWith(rest, <<"I", "X", "I">>) /\ AllDigits(After(rest, <<"I", "X", "I">>))

\* to_original_study_id with a bug: the separators are not put back
ToOriginalStudyIdNoSeparators(st, b) ==
    After(b, SubPrefix \o StudyChars(st))

\* bids_id_factory(study)(bids_id).to_original_study_id()
ToOriginalStudyId(st, b) ==
    LET rest == After(b, SubPrefix \o StudyChars(st))
    IN CASE st = "ADNI" ->
               SubSeq(rest, 1, 3) \o <<"_", "S", "_">> \o SubSeq(rest, 5, 8)
         [] st = "NIFD" ->
               SubSeq(rest, 1, 1) \o <<"_", "S", "_">> \o SubSeq(rest, 3, 6)
         [] st = "HABS" -> <<"P", "_">> \o rest
         [] st = "OASIS" -> <<"O", "A", "S", "1", "_">> \o Tail(rest) \o <<"_", "M", "R", "1">>
         [] OTHER -> rest

----------------------------------------------------------------------------
(* Clinical files.  A file is [exists, rows]; a row is [RID, VISCODE, v]   *)
(* with v the text of each value column as the CSV file holds it.         *)

Chars_bl == <<"b", "l">>
Chars_m06 == <<"m", "0", "6">>
SesPrefix == <<"s", "e", "s", "-", "M">>
SesM000 == StrV(SesPrefix \o <<"0", "0", "0">>)
SesM006 == StrV(SesPrefix \o <<"0", "0", "6">>)

\* viscode_to_session: the baseline code gives ses-M000, a month code mNN
\* gives ses-M0NN, any other code gives no session
ViscodeToSession(v) ==
    IF v = Chars_bl THEN SesM000
    ELSE IF Len(v) >= 2 /\ v[1] \in {"m", "M"} /\ AllDigits(Tail(v))
         THEN StrV(SesPrefix \o Pad(ParseNat(Tail(v)), 3))
    ELSE NoneV

AbsentFile == [exists |-> FALSE, rows |-> <<>>]
File(rows) == [exists |-> TRUE, rows |-> rows]

\* text of an integer, as pandas recognises it
IsIntText(cs) ==
    \/ cs # <<>> /\ AllDigits(cs)
    \/ Len(cs) >= 2 /\ cs[1] = "-" /\ AllDigits(Tail(cs))
IntOfText(cs) == IF cs[1] = "-" THEN 0 - ParseNat(Tail(cs)) ELSE ParseNat(cs)

\* pd.read_csv: a column whose cells are all integers is numeric, any other
\* column holds text; a blank cell is NaN
ReadColumn(file, c) ==
    LET raw == [i \in 1..Len(file.rows) |-> file.rows[i].v[c]]
        numeric == \A i \in 1..Len(raw) : raw[i] = <<>> \/ IsIntText(raw[i])
    IN [i \in 1..Len(raw) |->
           IF raw[i] = <<>> THEN NaN
           ELSE IF numeric THEN IntV(IntOfText(raw[i]))
           ELSE StrV(raw[i])]

ReadCsv(file) ==
    [i \in 1..Len(file.rows) |->
        [RID |-> file.rows[i].RID,
         VISCODE |-> file.rows[i].VISCODE,
         v |-> [c \in DOMAIN file.rows[i].v |-> ReadColumn(file, c)[i]]]]

RECURSIVE SelectSeq2(_, _, _)
\* the elements of seq at the positions in keep, in order
SelectSeq2(seq, keep, i) ==
    IF i > Len(seq) THEN <<>>
    ELSE (IF i \in keep THEN <<seq[i]>> ELSE <<>>) \o SelectSeq2(seq, keep, i + 1)

----------------------------------------------------------------------------
(* The fallback search for an examination date *)

\* the patterns of _get_csv_files_for_alternative_exam_date, with a bug: the
\* cdr file is probed before the MRI files
AlternativePatternsCdrFirst ==
    << "aibl_cdr_*.csv", "aibl_mri3meta_*.csv", "aibl_mrimeta_*.csv",
       "aibl_flutemeta_*.csv", "aibl_mmse_*.csv", "aibl_pibmeta_*.csv" >>

\* the patterns of _get_csv_files_for_alternative_exam_date, in order
AlternativePatterns ==
    << "aibl_mri3meta_*.csv", "aibl_mrimeta_*.csv", "aibl_cdr_*.csv",
       "aibl_flutemeta_*.csv", "aibl_mmse_*.csv", "aibl_pibmeta_*.csv" >>

\* next(clinical_data_dir.glob(pattern)): the file, when one matches
Glob(dir, pattern) == IF pattern \in DOMAIN dir THEN dir[pattern] ELSE AbsentFile

\* _get_csv_files_for_alternative_exam_date: the patterns that match a file
GetCsvFilesForAlternativeExamDate(dir) ==
    SelectSeq2(AlternativePatterns,
               {i \in 1..Len(AlternativePatterns) :
                    Glob(dir, AlternativePatterns[i]).exists},
               1)

\* the rows of a fallback file for (rid, session_id), as read
MatchingRows(file, rid, session_id) ==
    LET csv_data == ReadCsv(file)
    IN SelectSeq2(csv_data,
                  {i \in 1..Len(csv_data) :
                       /\ csv_data[i].RID = rid
                       /\ ViscodeToSession(csv_data[i].VISCODE) = session_id},
                  1)

\* the body of the loop of _find_exam_date_in_other_csv_files for one file
FileGivesDate(file, rid, session_id) ==
    LET exam_date == MatchingRows(file, rid, session_id)
    IN exam_date # <<>> /\ exam_date[1].v["EXAMDATE"] # SentinelStr

RECURSIVE FindFrom(_, _, _, _, _)
FindFrom(files, k, dir, rid, session_id) ==
    IF k > Len(files) THEN [val |-> NoneV, read |-> files]
    ELSE IF FileGivesDate(Glob(dir, files[k]), rid, session_id)
         THEN [val |-> MatchingRows(Glob(dir, files[k]), rid, session_id)[1].v["EXAMDATE"],
               read |-> SubSeq(files, 1, k)]
    ELSE FindFrom(files, k + 1, dir, rid, session_id)

\* _find_exam_date_in_other_csv_files: the value returned and the files read
FindExamDateInOtherCsvFiles(rid, session_id, dir) ==
    FindFrom(GetCsvFilesForAlternativeExamDate(dir), 1, dir, rid, session_id)

\* _complete_examination_dates with a bug: the fallback search always runs
CompleteExaminationDatesEager(rid, dir, session_id, examination_date) ==
    IF Truthy(session_id)
    THEN FindExamDateInOtherCsvFiles(rid, session_id, dir)
    ELSE [val |-> examination_date, read |-> <<>>]

\* _complete_examination_dates: the value returned and the files read
CompleteExaminationDates(rid, dir, session_id, examination_date) ==
    IF Truthy(examination_date) THEN [val |-> examination_date, read |-> <<>>]
    ELSE IF Truthy(session_id)
         THEN FindExamDateInOtherCsvFiles(rid, session_id, dir)
    ELSE [val |-> NoneV, read |-> <<>>]

----------------------------------------------------------------------------
(* create_sessions_tsv_file *)

\* the characters in the order in which str compares them
Ascii ==
    << "-", "/", "0", "1", "2", "3", "4", "5", "6", "7", "8", "9", "?",
       "A", "B", "C", "D", "E", "F", "G", "H", "I", "J", "K", "L", "M",
       "N", "O", "P", "Q", "R", "S", "T", "U", "V", "W", "X", "Y", "Z", "_",
       "a", "b", "c", "d", "e", "f", "g", "h", "i", "j", "k", "l", "m",
       "n", "o", "p", "q", "r", "s", "t", "u", "v", "w", "x", "y", "z" >>
Code(ch) == CHOOSE i \in 1..Len(Ascii) : Ascii[i] = ch

RECURSIVE StrLess(_, _)
StrLess(a, b) ==
    IF b = <<>> THEN FALSE
    ELSE IF a = <<>> THEN TRUE
    ELSE IF a[1] = b[1] THEN StrLess(Tail(a), Tail(b))
    ELSE Code(a[1]) < Code(b[1])

\* the order of sort_index: text ascending, missing labels last
LabelLess(x, y) ==
    IF IsNull(x) THEN FALSE ELSE IF IsNull(y) THEN TRUE ELSE StrLess(x.s, y.s)

\* DataFrame.sort_index with a bug: the rows stay in their order
SortIndexNone(d) == d

\* DataFrame.sort_index on a table whose labels are distinct
SortIndex(d) ==
    LET n == Len(d.index)
        pos(i) == 1 + Cardinality({j \in 1..n : LabelLess(d.index[j], d.index[i])})
        at(q) == CHOOSE i \in 1..n : pos(i) = q
    IN Frame(d.columns,
             [q \in 1..n |-> d.index[at(q)]],
             [q \in 1..n |-> d.rows[at(q)]])

\* n in decimal, as str(n) writes it
RECURSIVE StrOfNat(_)
StrOfNat(n) ==
    IF n < 10 THEN <<Digits[n + 1]>>
    ELSE Append(StrOfNat(n \div 10), Digits[(n % 10) + 1])

NaStr == StrV(<<"n", "/", "a">>)

\* _map_diagnosis with a bug: an unknown code is passed through
MapDiagnosisPassThrough(diagnosis) ==
    IF diagnosis = IntV(1) THEN StrV(<<"C", "N">>)
    ELSE IF diagnosis = IntV(2) THEN StrV(<<"M", "C", "I">>)
    ELSE IF diagnosis = IntV(3) THEN StrV(<<"A", "D">>)
    ELSE diagnosis

\* _map_diagnosis
MapDiagnosis(diagnosis) ==
    IF diagnosis = IntV(1) THEN StrV(<<"C", "N">>)
    ELSE IF diagnosis = IntV(2) THEN StrV(<<"M", "C", "I">>)
    ELSE IF diagnosis = IntV(3) THEN StrV(<<"A", "D">>)
    ELSE NaStr

\* _format_metadata_for_rid with a bug: the rows of every subject are kept
FormatMetadataForRidAllRows(input_df, source_id, bids_metadata, source_metadata) ==
    Frame(<<bids_metadata>>,
          [i \in 1..Len(input_df) |-> ViscodeToSession(input_df[i].VISCODE)],
          [i \in 1..Len(input_df) |->
              [c \in {bids_metadata} |-> input_df[i].v[source_metadata]]])

\* _format_metadata_for_rid: the rows of source_id, indexed by session
FormatMetadataForRid(input_df, source_id, bids_metadata, source_metadata) ==
    LET extract == SelectSeq2(input_df,
                              {i \in 1..Len(input_df) : input_df[i].RID = source_id},
                              1)
    IN Frame(<<bids_metadata>>,
             [i \in 1..Len(extract) |-> ViscodeToSession(extract[i].VISCODE)],
             [i \in 1..Len(extract) |->
                 [c \in {bids_metadata} |-> extract[i].v[source_metadata]]])

HasDuplicates(idx) == \E i, j \in 1..Len(idx) : i < j /\ idx[i] = idx[j]

\* pd.concat([a, b], axis=1): the rows are aligned on the union of the two
\* indexes; an index with a repeated label cannot be aligned
Concat(a, b) ==
    IF a.index # b.index /\ (HasDuplicates(a.index) \/ HasDuplicates(b.index))
    THEN [raised |-> "InvalidIndexError", df |-> a]
    ELSE LET extra == SelectSeq2(b.index,
                                 {i \in 1..Len(b.index) : b.index[i] \notin Range(a.index)},
                                 1)
             idx == IF a.index = b.index THEN a.index ELSE a.index \o extra
             cell(q, c) ==
                 LET src == IF c \in Range(b.columns) THEN b ELSE a
                 IN IF a.index = b.index THEN src.rows[q][c]
                    ELSE IF idx[q] \in Range(src.index)
                         THEN src.rows[CHOOSE i \in 1..Len(src.index) :
                                           src.index[i] = idx[q]][c]
                    ELSE NaN
         IN [raised |-> "no",
             df |-> Frame(a.columns \o b.columns,
                          idx,
                          [q \in 1..Len(idx) |->
                              [c \in Range(a.columns) \cup Range(b.columns) |->
                                  cell(q, c)]])]

\* the value of a statement sequence: the one element of the set of its results
\* (each intermediate table is bound once, as an assignment does)
Result(S) == CHOOSE x \in S : TRUE

\* the loop over the rows of the specification with a bug: the first match
\* of the pattern is taken without a test, as glob.glob(...)[0] does
RECURSIVE AddMetadataFirstMatch(_, _, _, _, _, _)
AddMetadataFirstMatch(sessions, spec, i, rid, dir, read) ==
    IF i > Len(spec)
    THEN [raised |-> "no", df |-> sessions, read |-> read, msg |-> <<>>]
    ELSE IF ~Glob(dir, spec[i].location).exists
         THEN [raised |-> "IndexError", df |-> sessions, read |-> read, msg |-> <<>>]
    ELSE Result(
           { IF joined.raised # "no"
             THEN [raised |-> joined.raised, df |-> joined.df,
                   read |-> Append(read, spec[i].location), msg |-> <<>>]
             ELSE AddMetadataFirstMatch(joined.df, spec, i + 1, rid, dir,
                                        Append(read, spec[i].location)) :
               joined \in
                 { Concat(sessions, data) :
                     data \in
                       { FormatMetadataForRid(csv, rid, spec[i].bids, spec[i].field) :
                           csv \in {ReadCsv(Glob(dir, spec[i].location))} } } })

\* the loop over the rows of the specification: each row reads its clinical
\* file and adds one column to the table of the subject
RECURSIVE AddMetadata(_, _, _, _, _, _)
AddMetadata(sessions, spec, i, rid, dir, read) ==
    IF i > Len(spec)
    THEN [raised |-> "no", df |-> sessions, read |-> read, msg |-> <<>>]
    ELSE IF ~Glob(dir, spec[i].location).exists
         THEN [raised |-> "FileNotFoundError", df |-> sessions, read |-> read,
               msg |-> <<spec[i].location, "clinical_data_dir">>]
    ELSE Result(
           { IF joined.raised # "no"
             THEN [raised |-> joined.raised, df |-> joined.df,
                   read |-> Append(read, spec[i].location), msg |-> <<>>]
             ELSE AddMetadata(joined.df, spec, i + 1, rid, dir,
                              Append(read, spec[i].location)) :
               joined \in
                 { Concat(sessions, data) :
                     data \in
                       { FormatMetadataForRid(csv, rid, spec[i].bids, spec[i].field) :
                           csv \in {ReadCsv(Glob(dir, spec[i].location))} } } })

\* sessions.replace(...) left out: every cell stays as it was read
ReplaceSentinelsNone(d) == d

\* sessions.replace([-4, "-4", np.nan], None)
ReplaceSentinels(d) ==
    Frame(d.columns, d.index,
          [i \in 1..Len(d.rows) |->
              [c \in DOMAIN d.rows[i] |->
                  IF IsSentinel(d.rows[i][c]) \/ d.rows[i][c].kind = "nan"
                  THEN NoneV ELSE d.rows[i][c]]])

\* sessions["diagnosis"] = sessions.diagnosis.apply(_map_diagnosis)
NormalizeDiagnosis(d) ==
    SetColumn(d, "diagnosis",
              [i \in 1..Len(d.rows) |-> MapDiagnosis(d.rows[i]["diagnosis"])])

\* sessions["examination_date"] = sessions.apply(_complete_examination_dates)
CompleteDates(d, rid, dir) ==
    SetColumn(d, "examination_date",
              [i \in 1..Len(d.rows) |->
                  CompleteExaminationDates(rid, dir, d.rows[i]["session_id"],
                                           d.rows[i]["examination_date"]).val])

\* sessions.dropna(subset=["session_id"])
DropNullSessions(d) ==
    LET keep == {i \in 1..Len(d.rows) : ~IsNull(d.rows[i]["session_id"])}
    IN Frame(d.columns, SelectSeq2(d.index, keep, 1), SelectSeq2(d.rows, keep, 1))

\* sessions.fillna("n/a")
FillNa(d) ==
    Frame(d.columns, d.index,
          [i \in 1..Len(d.rows) |->
              [c \in DOMAIN d.rows[i] |->
                  IF IsNull(d.rows[i][c]) THEN NaStr ELSE d.rows[i][c]]])

\* lines 263-278: from the assembled table to the table that is written
NormalizeSessions(d, rid, dir) ==
    IF ~HasColumn(d, "diagnosis") \/ ~HasColumn(d, "examination_date")
    THEN [raised |-> "AttributeError", df |-> d, msg |-> <<>>]
    ELSE Result(
           { IF aged.raised # "no" THEN aged
             ELSE Result({ [raised |-> "no", df |-> FillNa(kept), msg |-> <<>>] :
                             kept \in {DropNullSessions(aged.df)} }) :
               aged \in
                 { SetAgeFromBirth(dated) :
                     dated \in
                       { CompleteDates(labelled, rid, dir) :
                           labelled \in
                             { NormalizeDiagnosis(clean) :
                                 clean \in
                                   { ReplaceSentinels(sorted) :
                                       sorted \in {SortIndex(d)} } } } } })

\* the sessions table of one subject, lines 238-278, with the clinical
\* files the loop over the specification has read
SessionsOf(bids_id, sess_list, spec, dir) ==
    IF ~ValidBidsId("AIBL", bids_id) \/ ToOriginalStudyId("AIBL", bids_id) = <<>>
    THEN [raised |-> "ValueError", df |-> EmptyFrame, rid |-> 0,
          read |-> <<>>, msg |-> <<>>]
    ELSE Result(
           { IF built.raised # "no"
             THEN [raised |-> built.raised, df |-> built.df, rid |-> rid,
                   read |-> built.read, msg |-> built.msg]
             ELSE Result({ [raised |-> done.raised, df |-> done.df, rid |-> rid,
                            read |-> built.read, msg |-> done.msg] :
                             done \in {NormalizeSessions(built.df, rid, dir)} }) :
               rid \in {ParseNat(ToOriginalStudyId("AIBL", bids_id))},
               built \in
                 { AddMetadata(sessions, spec, 1,
                               ParseNat(ToOriginalStudyId("AIBL", bids_id)), dir, <<>>) :
                     sessions \in
                       { Frame(<<"session_id">>, sess_list,
                               [i \in 1..Len(sess_list) |->
                                   [c \in {"session_id"} |-> sess_list[i]]]) } } })

----------------------------------------------------------------------------
(* The age functions on their own: SpecAge *)

MaxDfRows == 3

\* a birth date as AIBL writes it, /YYYY
FormatBirth(y) == StrV(<<"/">> \o Pad(y, 4))
\* an examination date as AIBL writes it, MM/DD/YYYY
FormatExam(m, d, y) == StrV(Pad(m, 2) \o <<"/">> \o Pad(d, 2) \o <<"/">> \o Pad(y, 4))

Foo == StrV(<<"f", "o", "o">>)

\* year 0 stands for a missing date
Missing == [m |-> 0, d |-> 0, y |-> 0]
BirthYears == {2000, 2001}
ExamDays == {[m |-> 1, d |-> 1, y |-> 2024], [m |-> 12, d |-> 31, y |-> 2026]}
BirthCell(b) == IF b.y = 0 THEN NoneV ELSE FormatBirth(b.y)
ExamCell(e) == IF e.y = 0 THEN NoneV ELSE FormatExam(e.m, e.d, e.y)

BirthOpts == {Missing} \cup {[m |-> 0, d |-> 0, y |-> y] : y \in BirthYears}
ExamOpts == {Missing} \cup ExamDays

SessionLabels == <<"ses-M000", "ses-M006", "ses-M012", "ses-M018">>
AgeColumnLists ==
    { <<"session_id", "examination_date", "date_of_birth">>,
      <<"session_id", "date_of_birth", "examination_date">>,
      <<"session_id", "date_of_birth">>,
      <<"session_id", "examination_date">>,
      <<"session_id">> }

\* the table of a subject whose i-th session has birth g[i].b and exam g[i].e
AgeFrame(cols, g) ==
    Frame(cols,
          [i \in 1..Len(g) |-> Txt(SessionLabels[i])],
          [i \in 1..Len(g) |->
              [k \in Range(cols) |->
                  CASE k = "session_id" -> Txt(SessionLabels[i])
                    [] k = "date_of_birth" -> BirthCell(g[i].b)
                    [] OTHER -> ExamCell(g[i].e)]])

NoFrameCall == [raised |-> "not called", df |-> EmptyFrame, msg |-> <<>>]

\* arguments of _compute_age_at_exam: dates of any month and day, a missing
\* value, and text that is no date
ArgBirths == BirthOpts \cup {[m |-> 0, d |-> 0, y |-> 1999]}
ArgExams ==
    {Missing} \cup
    {[m |-> m, d |-> d, y |-> y] : m \in {1, 2, 12}, d \in {1, 15, 30}, y \in {2000, 2024}}

\* the variables of create_sessions_tsv_file while another function is studied
SessIdle ==
    /\ bids = <<>> /\ specification = AbsentFile
    /\ cursor = 0 /\ written = <<>> /\ err = "no" /\ errMsg = <<>>
    /\ participantsTsv = AbsentFile /\ scansTsv = {}
    /\ delete_non_bids_info = TRUE

\* the variables of the translator while another function is studied
IdIdle ==
    /\ study = "AIBL" /\ nativeId = <<>> /\ otherId = <<>>
    /\ bidsId = NoCall /\ otherBidsId = NoCall /\ backId = NoCall

\* the variables of the exam-date functions while another function is studied
FindIdle ==
    /\ clinical = <<>>
    /\ ridArg = 0 /\ sesArg = NoneV /\ dateArg = NoneV
    /\ findRes = NoCall /\ probed = <<>>

InitSetAge ==
    /\ pc = "call_set_age"
    /\ \E cols \in AgeColumnLists, n \in 1..MaxDfRows :
         \E g \in [1..n -> [b : BirthOpts, e : ExamOpts]] :
            /\ given = g
            /\ df = AgeFrame(cols, g)
    /\ ageOut = NoFrameCall
    /\ birthArg = NoneV /\ examArg = NoneV /\ ageRes = NoCall
    /\ FindIdle /\ IdIdle /\ SessIdle

InitComputeAge ==
    /\ pc = "call_compute_age"
    /\ \E b \in ArgBirths, e \in ArgExams, bad \in {"none", "birth", "exam"} :
         /\ given = <<[b |-> b, e |-> e, bad |-> bad]>>
         /\ birthArg = (IF bad = "birth" THEN Foo ELSE BirthCell(b))
         /\ examArg = (IF bad = "exam" THEN Foo ELSE ExamCell(e))
    /\ df = EmptyFrame /\ ageOut = NoFrameCall /\ ageRes = NoCall
    /\ FindIdle /\ IdIdle /\ SessIdle

InitAge == InitSetAge \/ InitComputeAge

CallSetAgeFromBirth ==
    /\ pc = "call_set_age"
    /\ ageOut' = SetAgeFromBirth(df)
    /\ pc' = "set_age_done"
    /\ UNCHANGED <<given, df, birthArg, examArg, ageRes, notAgeVars>>

CallComputeAgeAtExam ==
    /\ pc = "call_compute_age"
    /\ ageRes' = ComputeAgeAtExam(birthArg, examArg)
    /\ pc' = "compute_age_done"
    /\ UNCHANGED <<given, df, ageOut, birthArg, examArg, notAgeVars>>

NextAge == CallSetAgeFromBirth \/ CallComputeAgeAtExam

SpecAge == InitAge /\ [][NextAge]_vars

----------------------------------------------------------------------------
(* The exam-date functions on their own: SpecFind *)

MaxFileRows == 2

\* the rows a fallback file may hold: for subject 109, a dated or a sentinel
\* row of visit m06 and a dated row of visit bl; every file has its own dates
FallbackRows(i) ==
    { [RID |-> 109, VISCODE |-> Chars_m06, v |-> [EXAMDATE |-> FormatExam(1, i, 2109).s]],
      [RID |-> 109, VISCODE |-> Chars_m06, v |-> [EXAMDATE |-> <<"-", "4">>]],
      [RID |-> 109, VISCODE |-> Chars_bl, v |-> [EXAMDATE |-> FormatExam(2, i, 2100).s]] }

FallbackFiles(i) ==
    {File(<<>>)} \cup
    UNION {{File(r) : r \in [1..n -> FallbackRows(i)]} : n \in 1..MaxFileRows}

\* directories in which the candidate files i and j exist and no other
FallbackDirs(i, j) ==
    {[p \in {AlternativePatterns[i], AlternativePatterns[j]} |->
         IF p = AlternativePatterns[i] THEN fi ELSE fj] :
        fi \in FallbackFiles(i), fj \in FallbackFiles(j)}

\* directories in which at most one of the candidate files exists
SingleFileDirs ==
    UNION {{[p \in {AlternativePatterns[i]} |-> fi] : fi \in FallbackFiles(i)} :
           i \in 1..Len(AlternativePatterns)}
    \cup {<<>>}

PrimaryDate == FormatExam(3, 3, 2103)

InitFind ==
    /\ pc = "call_find"
    /\ \/ clinical = <<>>
       \/ \E i, j \in 1..Len(AlternativePatterns) : clinical \in FallbackDirs(i, j)
    /\ \E q \in {<<109, SesM006>>, <<109, SesM000>>, <<7, SesM006>>} :
         ridArg = q[1] /\ sesArg = q[2]
    /\ dateArg = NoneV

InitComplete ==
    /\ pc = "call_complete"
    /\ clinical \in SingleFileDirs
    /\ ridArg \in {109, 7}
    /\ sesArg \in {NoneV, SesM006, SesM000}
    /\ dateArg \in {NoneV, PrimaryDate}

AgeIdle ==
    /\ df = EmptyFrame /\ ageOut = NoFrameCall
    /\ birthArg = NoneV /\ examArg = NoneV /\ ageRes = NoCall

InitFindSpec ==
    /\ InitFind \/ InitComplete
    /\ given = <<>>
    /\ findRes = NoCall /\ probed = <<>>
    /\ AgeIdle /\ IdIdle /\ SessIdle

CallFindExamDateInOtherCsvFiles ==
    /\ pc = "call_find"
    /\ LET r == FindExamDateInOtherCsvFiles(ridArg, sesArg, clinical)
       IN findRes' = Ret(r.val) /\ probed' = r.read
    /\ pc' = "find_done"
    /\ UNCHANGED <<given, notFindVars, clinical, ridArg, sesArg, dateArg>>

CallCompleteExaminationDates ==
    /\ pc = "call_complete"
    /\ LET r == CompleteExaminationDates(ridArg, clinical, sesArg, dateArg)
       IN findRes' = Ret(r.val) /\ probed' = r.read
    /\ pc' = "complete_done"
    /\ UNCHANGED <<given, notFindVars, clinical, ridArg, sesArg, dateArg>>

NextFind == CallFindExamDateInOtherCsvFiles \/ CallCompleteExaminationDates

SpecFind == InitFindSpec /\ [][NextFind]_vars

----------------------------------------------------------------------------
(* The identifier translator on its own: SpecId *)

\* native identifiers of each study, well-formed and not: those of
\* test_study_to_bids_id_passing and test_study_to_bids_id_value_error and
\* their neighbours
SampleStudyIds(st) ==
    CASE st = "ADNI" ->
             { <<"0", "0", "1", "_", "S", "_", "0", "0", "0", "1">>,
               <<"0", "0", "1", "_", "S", "_", "0", "0", "0", "2">>,
               <<"1", "2", "3", "_", "S", "_", "4", "5", "6", "7">>,
               <<"0", "0", "1", "S", "0", "0", "0", "1">>,
               <<"0", "0", "1", "_", "X", "_", "0", "0", "0", "1">>,
               <<"f", "o", "o", "_", "S", "_", "0", "0", "0", "1">> }
      [] st = "NIFD" ->
             { <<"1", "_", "S", "_", "0", "0", "0", "1">>,
               <<"2", "_", "S", "_", "0", "0", "0", "1">>,
               <<"1", "S", "0", "0", "0", "1">>,
               <<"1", "_", "X", "_", "0", "0", "0", "1">>,
               <<"f", "o", "o", "_", "S", "_", "0", "0", "0", "1">> }
      [] st = "AIBL" ->
             { <<"1", "0">>,
               <<"1">>,
               <<"0", "0", "7">>,
               <<"7">>,
               <<"1", "0", "A">> }
      [] st = "UKB" ->
             { <<"0", "1", "0", "1", "0", "0", "1">>,
               <<"1", "0", "1", "0", "0", "1">>,
               <<"0", "1", "0", "1", "0", "0", "1", "A">> }
      [] st = "GENFI" ->
             { <<"M", "A", "P", "T", "0", "0", "9">>,
               <<"G", "R", "N", "_", "1", "2">>,
               <<"M", "A", "P", "T", "0", "0", "9", "?">> }
      [] st = "OASIS3" ->
             { <<"O", "A", "S", "3", "0", "0", "0", "1">>,
               <<"O", "A", "S", "3", "0", "0", "0", "2">>,
               <<"O", "A", "S", "3", "_", "0", "0", "0", "1">>,
               <<"O", "A", "S", "3", "0", "0", "1">> }
      [] st = "HABS" ->
             { <<"P", "_", "I", "N", "I", "B", "U", "B">>,
               <<"P", "_", "A", "_", "B">>,
               <<"P", "I", "N", "I", "B", "U", "B">>,
               <<"X", "_", "I", "N", "I", "B", "U", "B">>,
               <<"P", "_", "I", "N", "I", "B", "U", "B", "?">> }
      [] st = "OASIS" ->
             { <<"O", "A", "S", "1", "_", "0", "0", "0", "1", "_", "M", "R", "1">>,
               <<"O", "A", "S", "1", "_", "0", "0", "0", "1", "_", "M", "R", "2">>,
               <<"O", "A", "S", "1", "_", "0", "0", "0", "2", "_", "M", "R", "1">>,
               <<"O", "A", "S", "1", "0", "0", "0", "1", "M", "R", "1">>,
               <<"O", "A", "S", "1", "_", "0", "0", "0", "1", "_", "M", "R", "I", "1">>,
               <<"O", "A", "S", "1", "_", "0", "0", "1", "_", "M", "R", "1">> }
      [] st = "IXI" ->
             { <<"I", "X", "I", "0", "0", "1">>,
               <<"I", "X", "I", "0", "0", "2">>,
               <<"I", "X", "I", "_", "0", "0", "1">>,
               <<"I", "X", "I", "0", "0", "0", "1">> }

InitId ==
    /\ pc = "call_from"
    /\ study \in StudyNames
    /\ nativeId \in SampleStudyIds(study)
    /\ otherId \in SampleStudyIds(study)
    /\ bidsId = NoCall /\ otherBidsId = NoCall /\ backId = NoCall
    /\ given = <<>>
    /\ AgeIdle /\ FindIdle /\ SessIdle

CallFromOriginalStudyId ==
    /\ pc = "call_from"
    /\ bidsId' = FromOriginalStudyId(study, nativeId)
    /\ otherBidsId' = FromOriginalStudyId(study, otherId)
    /\ pc' = (IF ValidStudyId(study, nativeId) THEN "call_to" ELSE "id_done")
    /\ UNCHANGED <<given, study, nativeId, otherId, backId, notIdVars>>

CallToOriginalStudyId ==
    /\ pc = "call_to"
    /\ backId' = (IF ValidBidsId(study, bidsId.val.s)
                  THEN Ret(StrV(ToOriginalStudyId(study, bidsId.val.s)))
                  ELSE Raise("ValueError"))
    /\ pc' = "id_done"
    /\ UNCHANGED <<given, study, nativeId, otherId, bidsId, otherBidsId, notIdVars>>

NextId == CallFromOriginalStudyId \/ CallToOriginalStudyId

SpecId == InitId /\ [][NextId]_vars

OasisFirstSession(id) == SubSeq(id, 1, 12) \o <<"1">>

C11_InvalidIdRaises ==
    (pc # "call_from" /\ ~ValidStudyId(study, nativeId))
        => bidsId = Raise("ValueError")

\* an ADNI identifier without its separators was rejected
C11_Witness ==
    /\ pc = "id_done"
    /\ study = "ADNI"
    /\ nativeId = <<"0", "0", "1", "S", "0", "0", "0", "1">>
    /\ bidsId.raised = "ValueError"

\* C12 as claimed: for every study the canonical identifier is sub-, the
\* name of the study and the native identifier without its separators
C12_PrefixStudyStripped ==
    (pc # "call_from" /\ bidsId.raised = "no")
        => bidsId.val.s = SubPrefix \o StudyNameChars(study) \o StripUnderscores(nativeId)

\* C12 as amended: the canonical identifier is sub-, the name of the study
\* and the native identifier without its separators for ADNI, NIFD, AIBL and
\* UKB; it is sub- and the native identifier for GENFI, OASIS3 and IXI;
\* sub-HABS and the identifier after its leading P_ for HABS; sub-OASIS1
\* and the four digits of the subject for OASIS
C12_CanonicalFormPerStudy ==
    (pc # "call_from" /\ bidsId.raised = "no")
        => bidsId.val.s =
             CASE study \in {"ADNI", "NIFD", "AIBL", "UKB"} ->
                    SubPrefix \o StudyNameChars(study) \o StripUnderscores(nativeId)
               [] study \in {"GENFI", "OASIS3", "IXI"} -> SubPrefix \o nativeId
               [] study = "HABS" ->
                    SubPrefix \o <<"H", "A", "B", "S">> \o SubSeq(nativeId, 3, Len(nativeId))
               [] study = "OASIS" ->
                    SubPrefix \o <<"O", "A", "S", "I", "S", "1">> \o SubSeq(nativeId, 6, 9)

\* a HABS identifier was translated: its leading P_ is gone
C12_Witness ==
    /\ pc # "call_from"
    /\ study = "HABS"
    /\ nativeId = <<"P", "_", "I", "N", "I", "B", "U", "B">>
    /\ bidsId = Ret(StrV(<<"s", "u", "b", "-", "H", "A", "B", "S", "I", "N", "I", "B", "U", "B">>))

\* candidate file i exists and holds, for the pair asked for, a row whose
\* exam date is not the sentinel
GoodDates(i) ==
    LET file == Glob(clinical, AlternativePatterns[i])
    IN {file.rows[k].v["EXAMDATE"] :
           k \in {j \in 1..Len(file.rows) :
                     /\ file.rows[j].RID = ridArg
                     /\ ViscodeToSession(file.rows[j].VISCODE) = sesArg
                     /\ file.rows[j].v["EXAMDATE"] # <<"-", "4">>}}
HoldsDate(i) == GoodDates(i) # {}
SomeFileHoldsDate == \E i \in 1..Len(AlternativePatterns) : HoldsDate(i)
EarliestHolding ==
    CHOOSE i \in 1..Len(AlternativePatterns) :
        HoldsDate(i) /\ \A j \in 1..(i - 1) : ~HoldsDate(j)

\* C3: the fallback search returns the exam date of the earliest candidate
\* file, in the fixed order, that holds a non-sentinel date for the (RID,
\* session) pair; never a date of a later file.
C3_EarliestFileWins ==
    (pc = "find_done" /\ SomeFileHoldsDate) =>
        /\ findRes.val.kind = "str"
        /\ findRes.val.s \in GoodDates(EarliestHolding)

\* C4: the fallback search returns None exactly when no candidate file holds
\* a non-sentinel date for the pair, and a non-sentinel date otherwise.
C4_NoneIffNothingFound ==
    pc = "find_done" =>
        /\ findRes.val = NoneV <=> ~SomeFileHoldsDate
        /\ SomeFileHoldsDate => ~IsNull(findRes.val) /\ ~IsSentinel(findRes.val)

SomeCandidateExists ==
    \E i \in 1..Len(AlternativePatterns) : Glob(clinical, AlternativePatterns[i]).exists

\* C5: _complete_examination_dates returns a present examination date
\* unchanged and reads no fallback file; it searches the fallback files only
\* when the date is absent and a session id is present, and returns None
\* without a search when both are absent.
C5_SearchOnlyWhenDateAbsent ==
    pc = "complete_done" =>
        /\ dateArg # NoneV => findRes = Ret(dateArg) /\ probed = <<>>
        /\ (dateArg = NoneV /\ sesArg = NoneV) => findRes = Ret(NoneV) /\ probed = <<>>
        /\ (dateArg = NoneV /\ sesArg # NoneV /\ SomeCandidateExists) =>
              /\ probed # <<>>
              /\ probed[1] = GetCsvFilesForAlternativeExamDate(clinical)[1]

C5_Witness ==
    /\ pc = "complete_done"
    /\ dateArg = PrimaryDate
    /\ sesArg = SesM006
    /\ SomeFileHoldsDate
    /\ findRes = Ret(PrimaryDate)
    /\ probed = <<>>

\* the birth years that the rows of the table carry
GivenBirthYears == {given[i].b.y : i \in {j \in 1..Len(given) : given[j].b.y # 0}}
\* row i has no birth date of its own and none above it to take
NoBirthUpTo(i) == \A j \in 1..i : given[j].b.y = 0
SetAgeReturned ==
    /\ pc = "set_age_done"
    /\ HasColumn(df, "date_of_birth") /\ HasColumn(df, "examination_date")

\* C6: _set_age_from_birth gives a missing age to every row when the rows
\* carry two or more distinct birth dates, and to any row whose birth date
\* (after forward fill) or examination date is missing; the table returned has
\* no date_of_birth column and the rows of the input.
C6_AgeMissing ==
    SetAgeReturned =>
        /\ ageOut.raised = "no"
        /\ ~HasColumn(ageOut.df, "date_of_birth")
        /\ HasColumn(ageOut.df, "age")
        /\ ageOut.df.index = df.index
        /\ Len(ageOut.df.rows) = Len(df.rows)
        /\ \A i \in 1..Len(df.rows) :
             /\ DOMAIN ageOut.df.rows[i] = Range(ageOut.df.columns)
             /\ "date_of_birth" \notin DOMAIN ageOut.df.rows[i]
             /\ ageOut.df.rows[i]["session_id"] = df.rows[i]["session_id"]
             /\ ageOut.df.rows[i]["examination_date"] = df.rows[i]["examination_date"]
             /\ Cardinality(GivenBirthYears) >= 2 => ageOut.df.rows[i]["age"] = NoneV
             /\ (NoBirthUpTo(i) \/ given[i].e.y = 0) => ageOut.df.rows[i]["age"] = NoneV

C6_Witness ==
    /\ SetAgeReturned
    /\ Cardinality(GivenBirthYears) >= 2
    /\ \A i \in 1..Len(given) : given[i].e.y # 0
    /\ \A i \in 1..Len(df.rows) : ageOut.df.rows[i]["age"] = NoneV

\* C7: when the rows carry exactly one distinct birth date, every row that has
\* an examination date gets the age exam year minus that birth year, the rows
\* with a blank birth date included, wherever they stand.
C7_AgeWhereverBlank ==
    (SetAgeReturned /\ Cardinality(GivenBirthYears) = 1) =>
        /\ ageOut.raised = "no"
        /\ \A i \in 1..Len(given) :
             given[i].e.y # 0 =>
                ageOut.df.rows[i]["age"] =
                    IntV(given[i].e.y - (CHOOSE y \in GivenBirthYears : TRUE))

\* C8: _compute_age_at_exam returns exam year minus birth year for a birth
\* date /YYYY and an exam date MM/DD/YYYY, whatever the month and the day,
\* and returns None without parsing when an argument is missing.
C8_AgeIsYearDifference ==
    pc = "compute_age_done" =>
        LET g == given[1] IN
        /\ (g.bad = "none" /\ g.b.y # 0 /\ g.e.y # 0 /\ ~(g.e.m = 2 /\ g.e.d = 30))
              => ageRes = Ret(IntV(g.e.y - g.b.y))
        /\ (birthArg = NoneV \/ examArg = NoneV) => ageRes = Ret(NoneV)

C8_Witness ==
    /\ pc = "compute_age_done"
    /\ given[1].bad = "none"
    /\ given[1].b.y = 2000
    /\ given[1].e = [m |-> 12, d |-> 30, y |-> 2024]
    /\ ageRes = Ret(IntV(24))

----------------------------------------------------------------------------
(* create_sessions_tsv_file on a BIDS directory and a clinical directory: Spec *)

MaxClinicalRows == 2

\* the rows of the sessions specification file
SessionsSpec ==
    << [bids |-> "examination_date", location |-> "aibl_neurobat_*.csv", field |-> "EXAMDATE"],
       [bids |-> "date_of_birth", location |-> "aibl_ptdemog_*.csv", field |-> "PTDOB"],
       [bids |-> "diagnosis", location |-> "aibl_pdxconv_*.csv", field |-> "DXCURREN"] >>

\* _load_specifications without the test of existence: a missing file is
\* read as a table without rows
LoadSpecificationsUnchecked(file) ==
    [raised |-> "no",
     rows |-> SelectSeq2(file.rows,
                         {i \in 1..Len(file.rows) :
                              /\ file.rows[i].bids # ""
                              /\ file.rows[i].location # ""
                              /\ file.rows[i].field # ""},
                         1)]

\* _load_specifications(...)[[...]].dropna(): the rows with all three fields
LoadSpecifications(file) ==
    IF ~file.exists THEN [raised |-> "FileNotFoundError", rows |-> <<>>]
    ELSE [raised |-> "no",
          rows |-> SelectSeq2(file.rows,
                              {i \in 1..Len(file.rows) :
                                   /\ file.rows[i].bids # ""
                                   /\ file.rows[i].location # ""
                                   /\ file.rows[i].field # ""},
                              1)]

SubAIBL1 == <<"s", "u", "b", "-", "A", "I", "B", "L", "1">>
SubAIBL109 == <<"s", "u", "b", "-", "A", "I", "B", "L", "1", "0", "9">>

\* BIDS directories: the subjects in the order get_bids_subjs_list gives them
\* and the session directories of each
BidsDirs ==
    { [subjects |-> <<SubAIBL109>>,
       sessions |-> [b \in {SubAIBL109} |-> <<SesM000>>]],
      [subjects |-> <<SubAIBL1, SubAIBL109>>,
       sessions |-> [b \in {SubAIBL1, SubAIBL109} |->
                        IF b = SubAIBL1 THEN <<SesM000>> ELSE <<SesM006, SesM000>>]] }

Row(rid, viscode, col, text) ==
    [RID |-> rid, VISCODE |-> viscode, v |-> (col :> text)]

\* the rows aibl_neurobat may hold: dated and sentinel rows of subject 109,
\* one of them with a visit code that is no visit, and a row of subject 1;
\* a file may hold the same row twice
NeurobatRows ==
    { Row(109, Chars_bl, "EXAMDATE", FormatExam(1, 1, 2109).s),
      Row(109, Chars_m06, "EXAMDATE", <<"-", "4">>),
      Row(109, Chars_m06, "EXAMDATE", FormatExam(6, 1, 2109).s),
      Row(109, <<"x", "x">>, "EXAMDATE", FormatExam(1, 1, 2110).s),
      Row(1, Chars_bl, "EXAMDATE", FormatExam(1, 1, 2001).s) }

NeurobatFiles ==
    UNION {{File(r) : r \in [1..n -> NeurobatRows]} : n \in 0..MaxClinicalRows}

PtdemogFiles ==
    { File(<<>>),
      File(<< Row(109, Chars_bl, "PTDOB", FormatBirth(2000).s),
              Row(1, Chars_bl, "PTDOB", FormatBirth(2001).s) >>),
      File(<< Row(109, Chars_bl, "PTDOB", FormatBirth(2000).s),
              Row(109, Chars_m06, "PTDOB", FormatBirth(2001).s) >>),
      File(<< Row(109, Chars_bl, "PTDOB", <<"-", "4">>),
              Row(1, Chars_bl, "PTDOB", FormatBirth(2001).s) >>) }

PdxconvFiles ==
    { File(<< Row(109, Chars_bl, "DXCURREN", <<"1">>),
              Row(109, Chars_m06, "DXCURREN", <<"2">>) >>),
      File(<< Row(109, Chars_bl, "DXCURREN", <<"3">>),
              Row(109, Chars_m06, "DXCURREN", <<"0">>) >>),
      File(<< Row(109, Chars_bl, "DXCURREN", <<"-", "4">>),
              Row(1, Chars_bl, "DXCURREN", <<"1">>) >>) }

Mri3metaFiles ==
    { AbsentFile,
      File(<< Row(109, Chars_m06, "EXAMDATE", FormatExam(6, 2, 2109).s) >>),
      File(<< Row(109, Chars_m06, "EXAMDATE", <<"-", "4">>) >>),
      File(<< Row(109, Chars_m06, "EXAMDATE", <<"-", "4">>),
              Row(109, Chars_bl, "EXAMDATE", FormatExam(1, 2, 2109).s) >>) }

ClinicalDir(neurobat, ptdemog, pdxconv, mri3meta) ==
    ("aibl_neurobat_*.csv" :> neurobat) @@ ("aibl_ptdemog_*.csv" :> ptdemog)
    @@ ("aibl_pdxconv_*.csv" :> pdxconv) @@ ("aibl_mri3meta_*.csv" :> mri3meta)

\* the ptdemog and pdxconv files of a directory whose other files vary
PtdemogOfBoth ==
    File(<< Row(109, Chars_bl, "PTDOB", FormatBirth(2000).s),
            Row(1, Chars_bl, "PTDOB", FormatBirth(2001).s) >>)

PdxconvOfBoth ==
    File(<< Row(109, Chars_bl, "DXCURREN", <<"1">>),
            Row(109, Chars_m06, "DXCURREN", <<"2">>) >>)

\* every neurobat file with every ptdemog and MRI file beside one pdxconv
\* file, and with every pdxconv file beside one ptdemog file and no MRI
\* file: the diagnosis column is computed from the pdxconv file alone
ClinicalDirs ==
    { ClinicalDir(nb, pt, PdxconvOfBoth, mri) :
        nb \in NeurobatFiles, pt \in PtdemogFiles, mri \in Mri3metaFiles }
    \cup
    { ClinicalDir(nb, PtdemogOfBoth, dx, AbsentFile) :
        nb \in NeurobatFiles, dx \in PdxconvFiles }

\* the sessions specification with a row for the age, which has no AIBL field
SessionsSpecWithAge ==
    << SessionsSpec[1], SessionsSpec[2],
       [bids |-> "age", location |-> "", field |-> ""],
       SessionsSpec[3] >>

SubAIBL007 == <<"s", "u", "b", "-", "A", "I", "B", "L", "0", "0", "7">>
SubAIBL7 == <<"s", "u", "b", "-", "A", "I", "B", "L", "7">>

\* BIDS directories with a subject whose number is written with leading zeros
PaddedBidsDirs ==
    { [subjects |-> <<SubAIBL007>>,
       sessions |-> [b \in {SubAIBL007} |-> <<SesM000>>]],
      [subjects |-> <<SubAIBL007, SubAIBL7>>,
       sessions |-> [b \in {SubAIBL007, SubAIBL7} |->
                        IF b = SubAIBL007 THEN <<SesM000>> ELSE <<SesM000, SesM006>>]] }

\* clinical directories for the calls on unusual directories: a complete
\* one, one without the ptdemog file, one without the neurobat file, one
\* with the data of subject 7, and one where the second visit of subject 109
\* has a sentinel birth date and its date in the MRI file only
EdgeClinicalDirs ==
    { ClinicalDir(File(<< Row(109, Chars_bl, "EXAMDATE", FormatExam(1, 1, 2109).s) >>),
                  File(<< Row(109, Chars_bl, "PTDOB", FormatBirth(2000).s) >>),
                  File(<< Row(109, Chars_bl, "DXCURREN", <<"1">>) >>),
                  AbsentFile),
      ClinicalDir(File(<< Row(109, Chars_bl, "EXAMDATE", FormatExam(1, 1, 2109).s) >>),
                  AbsentFile,
                  File(<< Row(109, Chars_bl, "DXCURREN", <<"1">>) >>),
                  AbsentFile),
      ClinicalDir(AbsentFile,
                  File(<< Row(109, Chars_bl, "PTDOB", FormatBirth(2000).s) >>),
                  File(<< Row(109, Chars_bl, "DXCURREN", <<"1">>) >>),
                  AbsentFile),
      ClinicalDir(File(<< Row(7, Chars_bl, "EXAMDATE", FormatExam(1, 1, 2007).s) >>),
                  File(<< Row(7, Chars_bl, "PTDOB", FormatBirth(1950).s) >>),
                  File(<< Row(7, Chars_bl, "DXCURREN", <<"2">>) >>),
                  File(<< Row(7, Chars_m06, "EXAMDATE", <<"-", "4">>) >>)),
      ClinicalDir(File(<< Row(109, Chars_bl, "EXAMDATE", FormatExam(1, 1, 2109).s),
                          Row(109, Chars_m06, "EXAMDATE", <<"-", "4">>) >>),
                  File(<< Row(109, Chars_bl, "PTDOB", FormatBirth(2000).s),
                          Row(109, Chars_m06, "PTDOB", <<"-", "4">>) >>),
                  File(<< Row(109, Chars_bl, "DXCURREN", <<"1">>) >>),
                  File(<< Row(109, Chars_m06, "EXAMDATE", FormatExam(6, 2, 2110).s) >>)) }

\* sessions specifications that lack the birth date or the examination date
SessionsSpecsLacking ==
    { <<SessionsSpec[1], SessionsSpec[3]>>, <<SessionsSpec[2], SessionsSpec[3]>> }

\* the sessions file an earlier run wrote for a subject that had no session
StaleTable == Frame(<<"session_id">>, <<>>, <<>>)

\* the sessions files that exist before the call: none, or one per subject
EarlierOutputs(b) == {<<>>, [x \in Range(b.subjects) |-> StaleTable]}

MaxRuns == 2

\* create_sessions_tsv_file on the directories of the tests
InitSessions ==
    /\ bids \in BidsDirs
    /\ specification = File(SessionsSpec)
    /\ clinical \in ClinicalDirs
    /\ written = <<>>

\* create_sessions_tsv_file on unusual directories: a missing specification
\* or clinical file, zero-padded subject numbers, outputs of an earlier run
InitSessionsEdge ==
    /\ bids \in BidsDirs \cup PaddedBidsDirs
    /\ specification \in {File(SessionsSpec), File(SessionsSpecWithAge), AbsentFile}
                           \cup {File(sp) : sp \in SessionsSpecsLacking}
    /\ clinical \in EdgeClinicalDirs
    /\ written \in EarlierOutputs(bids)

\* lines 232-235: the specification is loaded before any subject is visited
CreateSessionsTsvFile ==
    /\ pc = "call_sessions"
    /\ LET loaded == LoadSpecifications(specification)
       IN IF loaded.raised # "no"
          THEN /\ err' = loaded.raised /\ pc' = "sessions_failed"
               /\ errMsg' = <<"sessions.tsv", <<"clinical_specifications_folder", "sessions.tsv">>>>
               /\ cursor' = cursor
          ELSE /\ err' = err /\ errMsg' = errMsg /\ cursor' = 1
               /\ pc' = (IF bids.subjects = <<>> THEN "sessions_done" ELSE "sessions_loop")
    /\ UNCHANGED <<given, ageVars, findVars, idVars, bids, specification, written,
                   participantsTsv, scansTsv, delete_non_bids_info>>

\* the sessions file in the directory of subject b, in the files w
FileOf(w, b) == IF b \in DOMAIN w THEN <<w[b]>> ELSE <<>>

\* to_csv with an existing file (a sequence of one file) under the bug that
\* an existing file is kept
ToCsvKeepExisting(existing, table) ==
    IF existing # <<>> THEN existing[1] ELSE table

\* DataFrame.to_csv(path): the content of the file at path after the call,
\* whatever file existed there
ToCsv(existing, table) == table

\* lines 237-286: one pass of the loop over the subjects, from the
\* identifier of the subject to the file that is written
ProcessSubject ==
    /\ pc = "sessions_loop"
    /\ \E table \in {SessionsOf(bids.subjects[cursor],
                                bids.sessions[bids.subjects[cursor]],
                                LoadSpecifications(specification).rows, clinical)} :
       \E target \in {FromOriginalStudyId("AIBL", StrOfNat(table.rid))} :
          /\ probed' = probed \o table.read
          /\ IF table.raised # "no"
             THEN /\ err' = table.raised /\ pc' = "sessions_failed"
                  /\ errMsg' = table.msg
                  /\ UNCHANGED <<cursor, written>>
             ELSE IF target.raised # "no" \/ target.val.s \notin Range(bids.subjects)
             THEN /\ err' = (IF target.raised # "no" THEN target.raised ELSE "OSError")
                  /\ errMsg' = <<>>
                  /\ pc' = "sessions_failed"
                  /\ UNCHANGED <<cursor, written>>
             ELSE /\ written' = (target.val.s :> ToCsv(FileOf(written, target.val.s), table.df))
                                 @@ written
                  /\ cursor' = cursor + 1
                  /\ pc' = (IF cursor = Len(bids.subjects)
                            THEN "sessions_done" ELSE "sessions_loop")
                  /\ UNCHANGED <<err, errMsg>>
    /\ UNCHANGED <<given, ageVars, clinical, ridArg, sesArg, dateArg, findRes, idVars,
                   bids, specification, participantsTsv, scansTsv, delete_non_bids_info>>

\* the caller runs create_sessions_tsv_file again on the same directories,
\* which now hold the sessions files of the run before
RunSessionsAgain ==
    /\ pc = "sessions_done"
    /\ Len(given) < MaxRuns
    /\ given' = Append(given, written)
    /\ pc' = "call_sessions"
    /\ cursor' = 0 /\ probed' = <<>>
    /\ UNCHANGED <<ageVars, clinical, ridArg, sesArg, dateArg, findRes, idVars,
                   bids, specification, written, err, errMsg,
                   participantsTsv, scansTsv, delete_non_bids_info>>

----------------------------------------------------------------------------
(* create_participants_tsv_file and create_scans_tsv_file *)

\* specification files for participants.tsv: the three fields the function
\* needs, declared in two orders, with a field that AIBL does not provide,
\* and with a field whose location is not a csv file
ParticipantsSpecs ==
    { << [bids |-> "alternative_id_1", location |-> "aibl_ptdemog_*.csv", field |-> "RID"],
         [bids |-> "date_of_birth", location |-> "aibl_ptdemog_*.csv", field |-> "PTDOB"],
         [bids |-> "education_level", location |-> "", field |-> ""],
         [bids |-> "sex", location |-> "aibl_ptdemog_*.csv", field |-> "PTGENDER"] >>,
      << [bids |-> "sex", location |-> "aibl_ptdemog_*.csv", field |-> "PTGENDER"],
         [bids |-> "alternative_id_1", location |-> "aibl_ptdemog_*.csv", field |-> "RID"],
         [bids |-> "date_of_birth", location |-> "aibl_ptdemog_*.csv", field |-> "PTDOB"] >>,
      << [bids |-> "alternative_id_1", location |-> "aibl_ptdemog_*.csv", field |-> "RID"],
         [bids |-> "date_of_birth", location |-> "aibl_ptdemog_*.csv", field |-> "PTDOB"],
         [bids |-> "sex", location |-> "aibl_ptdemog_*.csv", field |-> "PTGENDER"],
         [bids |-> "visit", location |-> "aibl_visits_*.txt", field |-> "VISCODE"] >> }

\* aibl_ptdemog files with the identifier, the birth date and the gender of
\* subjects 1, 109 and 7, the last of which has no directory in the BIDS
\* datasets of BidsDirs; a cell may hold the sentinel or be blank
ParticipantFiles ==
    LET rows == { [RID |-> (IF r.rid = <<>> THEN 0 ELSE ParseNat(r.rid)),
                   VISCODE |-> Chars_bl,
                   v |-> ("RID" :> r.rid) @@ ("PTDOB" :> r.dob) @@ ("PTGENDER" :> r.sex)] :
                  r \in { [rid |-> <<"1", "0", "9">>, dob |-> FormatBirth(2000).s, sex |-> <<"1">>],
                          [rid |-> <<"1", "0", "9">>, dob |-> <<"-", "4">>, sex |-> <<"2">>],
                          [rid |-> <<"1">>, dob |-> FormatBirth(2001).s, sex |-> <<>>],
                          [rid |-> <<"1">>, dob |-> FormatBirth(2001).s, sex |-> <<"-", "4">>],
                          [rid |-> <<"7">>, dob |-> FormatBirth(1950).s, sex |-> <<"1">>],
                          [rid |-> <<>>, dob |-> FormatBirth(1950).s, sex |-> <<"2">>] } }
    IN UNION {{File(r) : r \in [1..n -> rows]} : n \in 1..MaxClinicalRows}

\* the clinical directory of create_participants_tsv_file: the ptdemog file
\* and a visits file that is not a csv file
ParticipantsClinicalDir(ptdemog) ==
    ClinicalDir(AbsentFile, ptdemog, AbsentFile, AbsentFile)
    @@ ("aibl_visits_*.txt" :>
           File(<< [RID |-> 109, VISCODE |-> Chars_m06, v |-> ("RID" :> <<"1", "0", "9">>)] >>))

\* os.path.splitext(location)[1] for the locations of the model
FileExt(location) == IF location = "aibl_visits_*.txt" THEN ".txt" ELSE ".csv"

\* Series.str.extract(r"/(\d{4}).*") on one cell: the four digits after the
\* first slash that four digits follow
ExtractYear(c) ==
    LET hits == {i \in 1..Len(c.s) :
                    /\ c.s[i] = "/" /\ i + 4 <= Len(c.s)
                    /\ \A d \in 1..4 : IsDigit(c.s[i + d])}
    IN IF c.kind # "str" \/ hits = {} THEN NaN
       ELSE LET i == CHOOSE h \in hits : \A g \in hits : h <= g
            IN StrV(SubSeq(c.s, i + 1, i + 4))

\* Series.map({1: "M", 2: "F"}) on one cell, without the fillna
MapSexNoFill(c) ==
    IF c = IntV(1) THEN StrV(<<"M">>)
    ELSE IF c = IntV(2) THEN StrV(<<"F">>)
    ELSE NaN

\* Series.map({1: "M", 2: "F"}).fillna("n/a") on one cell
MapSex(c) ==
    IF c = IntV(1) THEN StrV(<<"M">>)
    ELSE IF c = IntV(2) THEN StrV(<<"F">>)
    ELSE NaStr

\* DataFrame.drop(index_to_drop)
DropRows(rows, index_to_drop) ==
    SelectSeq2(rows, (1..Len(rows)) \ index_to_drop, 1)

\* lines 69-91: the table in memory when field i is extracted. A table is
\* loaded when the location differs from the one before and ends with .csv
\* (.xlsx is read likewise); for any other extension the table loaded last
\* stays, and none is there when no field before has loaded one
FileToRead(mapped, dir, i) ==
    LET loads == {k \in 1..i : FileExt(mapped[k].location) = ".csv"}
    IN IF loads = {} THEN [exists |-> FALSE, rows |-> <<>>, unbound |-> TRUE]
       ELSE Glob(dir, mapped[CHOOSE k \in loads : \A q \in loads : q <= k].location)

\* lines 56-126 of create_participants_tsv_file: the table built from the
\* rows of the specification file and the clinical directory, the clinical
\* files read on the way and the error raised, if any
ParticipantsOf(spec, dir) ==
    LET mapped == SelectSeq2(spec, {i \in 1..Len(spec) : spec[i].field # ""}, 1)
        fields_bids == <<"participant_id">> \o [i \in 1..Len(mapped) |-> mapped[i].bids]
        file(i) == FileToRead(mapped, dir, i)
        loadable(i) == FileExt(mapped[i].location) = ".csv"
        bad(i) ==
            IF mapped[i].location = "" THEN "AttributeError"
            ELSE IF loadable(i) /\ ~file(i).exists THEN "IndexError"
            ELSE IF ~file(i).exists THEN "UnboundLocalError"
            ELSE IF /\ file(i).rows # <<>>
                    /\ mapped[i].field \notin {"RID", "VISCODE"}
                    /\ mapped[i].field \notin DOMAIN file(i).rows[1].v
                 THEN "KeyError"
            ELSE "no"
        failing == {i \in 1..Len(mapped) : bad(i) # "no"}
        last == IF failing = {} THEN Len(mapped)
                ELSE (CHOOSE i \in failing : \A j \in failing : i <= j) - 1
        \* a file is read again only when the location changes
        read == SelectSeq2([i \in 1..Len(mapped) |-> mapped[i].location],
                           {i \in 1..last :
                               /\ loadable(i)
                               /\ i = 1 \/ mapped[i].location # mapped[i - 1].location},
                           1)
        at(name) == CHOOSE i \in 1..Len(mapped) : mapped[i].bids = name
        has(name) == \E i \in 1..Len(mapped) : mapped[i].bids = name
        n == IF mapped = <<>> THEN 0 ELSE Len(file(1).rows)
        value(i, j) ==
            IF j > Len(file(i).rows) THEN NaN
            ELSE IF mapped[i].field \in DOMAIN file(i).rows[j].v
                 THEN ReadColumn(file(i), mapped[i].field)[j]
            ELSE IF mapped[i].field = "RID" THEN IntV(file(i).rows[j].RID)
            ELSE StrV(file(i).rows[j].VISCODE)
        \* lines 97-109: a cell of a numeric alternative_id_1 column is
        \* turned into text by str(); a column with a missing cell holds
        \* floating point numbers
        numeric == \A j \in 1..n : value(at("alternative_id_1"), j).kind \in {"int", "nan"}
        floating == \E j \in 1..n : value(at("alternative_id_1"), j).kind = "nan"
        alternative(j) ==
            LET c == value(at("alternative_id_1"), j)
            IN IF ~numeric THEN c
               ELSE IF c.kind = "nan" THEN NaStr
               ELSE IF floating THEN StrV(StrOfNat(c.n) \o <<".", "0">>)
               ELSE StrV(StrOfNat(c.n))
        participant_id(j) == FromOriginalStudyId("AIBL", alternative(j).s)
        cell(c, j) ==
            IF c = "participant_id" THEN participant_id(j).val
            ELSE IF c = "alternative_id_1" THEN alternative(j)
            ELSE IF c = "date_of_birth" THEN ExtractYear(value(at(c), j))
            ELSE IF c = "sex" THEN MapSex(value(at(c), j))
            ELSE IF value(at(c), j) = IntV(-4) THEN NaStr
            ELSE value(at(c), j)
        raised ==
            IF failing # {} THEN bad(last + 1)
            ELSE IF ~has("alternative_id_1") THEN "KeyError"
            ELSE IF \E j \in 1..n : participant_id(j).raised # "no" THEN "ValueError"
            ELSE IF ~has("date_of_birth") THEN "KeyError"
            ELSE IF \A j \in 1..n : value(at("date_of_birth"), j).kind # "str"
                 THEN "AttributeError"
            ELSE IF ~has("sex") THEN "KeyError"
            ELSE "no"
    IN IF raised # "no"
       THEN [raised |-> raised, read |-> read, columns |-> <<>>, rows |-> <<>>]
       ELSE [raised |-> "no", read |-> read, columns |-> fields_bids,
             rows |-> [j \in 1..n |-> [c \in Range(fields_bids) |-> cell(c, j)]]]

\* the participants.tsv of an earlier run on a dataset without subjects
StaleParticipants ==
    [exists |-> TRUE, columns |-> <<"participant_id">>, rows |-> <<>>]

\* create_participants_tsv_file on a BIDS dataset, with and without the
\* specification file, the ptdemog file and an earlier participants.tsv
InitParticipants ==
    /\ bids \in {d \in BidsDirs : Len(d.subjects) = 2}
    /\ specification \in {File(sp) : sp \in ParticipantsSpecs} \cup {AbsentFile}
    /\ clinical \in {ParticipantsClinicalDir(pt) : pt \in ParticipantFiles \cup {AbsentFile}}
    /\ delete_non_bids_info \in BOOLEAN
    /\ participantsTsv \in {AbsentFile, StaleParticipants}
    /\ given = <<participantsTsv>>
    /\ written = <<>> /\ scansTsv = {}

\* create_participants_tsv_file, lines 47-137
CreateParticipantsTsvFile ==
    /\ pc = "call_participants"
    /\ IF LoadSpecifications(specification).raised # "no"
       THEN /\ err' = LoadSpecifications(specification).raised
            /\ errMsg' = <<"participant.tsv",
                           <<"clinical_specifications_folder", "participant.tsv">>>>
            /\ pc' = "participants_failed"
            /\ UNCHANGED <<probed, participantsTsv>>
       ELSE \E out \in {ParticipantsOf(specification.rows, clinical)} :
               /\ probed' = out.read
               /\ IF out.raised # "no"
                  THEN /\ err' = out.raised /\ errMsg' = <<>>
                       /\ pc' = "participants_failed"
                       /\ UNCHANGED participantsTsv
                  ELSE /\ participantsTsv' =
                              ToCsv(IF participantsTsv.exists THEN <<participantsTsv>> ELSE <<>>,
                                    [exists |-> TRUE, columns |-> out.columns,
                                     rows |-> IF delete_non_bids_info
                                              THEN DropRows(out.rows, {})
                                              ELSE out.rows])
                       /\ pc' = "participants_done"
                       /\ UNCHANGED <<err, errMsg>>
    /\ UNCHANGED <<given, ageVars, clinical, ridArg, sesArg, dateArg, findRes, idVars,
                   bids, specification, cursor, written, scansTsv, delete_non_bids_info>>

\* the caller runs create_participants_tsv_file again on the same
\* directories, which now hold the participants.tsv of the run before
RunParticipantsAgain ==
    /\ pc = "participants_done"
    /\ Len(given) < MaxRuns
    /\ given' = Append(given, participantsTsv)
    /\ pc' = "call_participants"
    /\ probed' = <<>>
    /\ UNCHANGED <<ageVars, clinical, ridArg, sesArg, dateArg, findRes, idVars,
                   bids, specification, cursor, written, err, errMsg,
                   participantsTsv, scansTsv, delete_non_bids_info>>

\* a specification file for scans.tsv: two fields of the MRI and the
\* neuropsychological files and a field that AIBL does not provide
ScansSpec ==
    << [bids |-> "scan_id", location |-> "", field |-> ""],
       [bids |-> "acq_time", location |-> "aibl_neurobat_*.csv", field |-> "EXAMDATE"],
       [bids |-> "mri_date", location |-> "aibl_mri3meta_*.csv", field |-> "EXAMDATE"] >>

\* create_scans_tsv_file on a BIDS dataset, with and without the
\* specification file and the clinical files it names
InitScans ==
    /\ bids \in BidsDirs \cup PaddedBidsDirs
    /\ specification \in {File(ScansSpec), AbsentFile}
    /\ clinical \in EdgeClinicalDirs
    /\ scansTsv = {}
    /\ given = <<scansTsv>>
    /\ written = <<>> /\ participantsTsv = AbsentFile
    /\ delete_non_bids_info = TRUE

\* create_scans_tsv_file, lines 359-397: the specification is loaded, one
\* file is looked up for each mapped field, and the subject directories are
\* handed to write_scans_tsv; what the writer puts into the files is not
\* modelled, scansTsv holds the subjects a file is written for
CreateScansTsvFile ==
    /\ pc = "call_scans"
    /\ LET loaded == LoadSpecifications(specification)
           spec == specification.rows
           mapped == SelectSeq2(spec, {i \in 1..Len(spec) : spec[i].field # ""}, 1)
           missing == {i \in 1..Len(mapped) : ~Glob(clinical, mapped[i].location).exists}
       IN IF loaded.raised # "no"
          THEN /\ err' = loaded.raised
               /\ errMsg' = <<"scans.tsv", <<"clinical_specifications_folder", "scans.tsv">>>>
               /\ pc' = "scans_failed"
               /\ UNCHANGED <<probed, scansTsv>>
          ELSE IF missing # {}
          THEN /\ err' = "IndexError" /\ errMsg' = <<>>
               /\ pc' = "scans_failed"
               /\ UNCHANGED <<probed, scansTsv>>
          ELSE /\ scansTsv' = Range(bids.subjects)
               /\ probed' = [i \in 1..Len(mapped) |-> mapped[i].location]
               /\ pc' = "scans_done"
               /\ UNCHANGED <<err, errMsg>>
    /\ UNCHANGED <<given, ageVars, clinical, ridArg, sesArg, dateArg, findRes, idVars,
                   bids, specification, cursor, written, participantsTsv,
                   delete_non_bids_info>>

Init ==
    /\ \/ /\ pc = "call_sessions"
          /\ InitSessions \/ InitSessionsEdge
          /\ given = <<written>>
          /\ participantsTsv = AbsentFile /\ scansTsv = {}
          /\ delete_non_bids_info = TRUE
       \/ pc = "call_participants" /\ InitParticipants
       \/ pc = "call_scans" /\ InitScans
    /\ cursor = 0 /\ err = "no" /\ errMsg = <<>>
    /\ ridArg = 0 /\ sesArg = NoneV /\ dateArg = NoneV
    /\ findRes = NoCall /\ probed = <<>>
    /\ AgeIdle /\ IdIdle

Next ==
    \/ CreateSessionsTsvFile \/ ProcessSubject \/ RunSessionsAgain
    \/ CreateParticipantsTsvFile \/ RunParticipantsAgain
    \/ CreateScansTsvFile

Spec == Init /\ [][Next]_vars

\* the cells of the sessions tables that were written
WrittenCells ==
    UNION {UNION {{written[b].rows[i][c] : c \in DOMAIN written[b].rows[i]} :
                  i \in 1..Len(written[b].rows)} :
           b \in DOMAIN written}

\* C1 as claimed: no cell of a written sessions table is the sentinel -4,
\* as a number or as the text "-4", whatever the type of the EXAMDATE column
\* of the fallback file that filled an examination date
C1_NoSentinelWritten ==
    \A x \in WrittenCells : x # SentinelInt /\ x # SentinelStr

\* the sessions of the rows that a clinical file holds for a subject
SessionsInFile(file, rid) ==
    LET mine == SelectSeq2(file.rows,
                           {i \in 1..Len(file.rows) : file.rows[i].RID = rid}, 1)
    IN [i \in 1..Len(mine) |-> ViscodeToSession(mine[i].VISCODE)]

\* no clinical file holds two rows of one subject for the same session of
\* the subject in the BIDS directory
BidsSessionsUnrepeated ==
    \A b \in Range(bids.subjects) :
        \A q \in 1..Len(SessionsSpec) :
            LET ses == SessionsInFile(Glob(clinical, SessionsSpec[q].location),
                                      ParseNat(ToOriginalStudyId("AIBL", b)))
            IN \A i, j \in 1..Len(ses) :
                   (i < j /\ ses[i] = ses[j]) => ses[i] \notin Range(bids.sessions[b])

\* C2 as claimed: every row of a written sessions table has a session_id,
\* and the clinical rows of a subject whose visit code maps to no session,
\* or to a session that the subject has not in the BIDS directory, do not
\* make the call fail
C2_UnmatchedRowsLeftOut ==
    /\ \A b \in DOMAIN written :
           \A i \in 1..Len(written[b].rows) :
               written[b].rows[i]["session_id"] \in Range(bids.sessions[b])
    /\ BidsSessionsUnrepeated => err # "InvalidIndexError"

\* the text of the diagnosis the pdxconv file holds for a session of a
\* subject, empty when the file has no row for it
DiagnosisText(rid, session_id) ==
    LET file == Glob(clinical, "aibl_pdxconv_*.csv")
        rows == {i \in 1..Len(file.rows) :
                     /\ file.rows[i].RID = rid
                     /\ ViscodeToSession(file.rows[i].VISCODE) = session_id}
    IN IF rows = {} THEN <<>>
       ELSE file.rows[CHOOSE i \in rows : \A j \in rows : i <= j].v["DXCURREN"]

DiagnosisLabel(text) ==
    IF text = <<"1">> THEN StrV(<<"C", "N">>)
    ELSE IF text = <<"2">> THEN StrV(<<"M", "C", "I">>)
    ELSE IF text = <<"3">> THEN StrV(<<"A", "D">>)
    ELSE NaStr

\* C9: every diagnosis cell of a written sessions table is CN, MCI, AD or
\* n/a: CN where the clinical file holds 1 for the session, MCI for 2, AD
\* for 3, and n/a for any other code (0, the sentinel -4) and where the file
\* holds no diagnosis for the session
C9_DiagnosisLabels ==
    \A b \in DOMAIN written :
        \A i \in 1..Len(written[b].rows) :
            written[b].rows[i]["diagnosis"] =
                DiagnosisLabel(DiagnosisText(ParseNat(ToOriginalStudyId("AIBL", b)),
                                             written[b].rows[i]["session_id"]))

\* a written table with a known diagnosis, and n/a for the code 0
C9_Witness ==
    \E b \in DOMAIN written :
        \E i, j \in 1..Len(written[b].rows) :
            /\ written[b].rows[i]["diagnosis"] = StrV(<<"A", "D">>)
            /\ written[b].rows[j]["diagnosis"] = NaStr
            /\ DiagnosisText(ParseNat(ToOriginalStudyId("AIBL", b)),
                             written[b].rows[j]["session_id"]) = <<"0">>

\* the table create_sessions_tsv_file computes for a subject directory
TableOf(b) ==
    SessionsOf(b, bids.sessions[b], LoadSpecifications(specification).rows, clinical).df

\* C13 as claimed: after a successful call every enumerated subject
\* directory holds its sessions file, written by the call with the table of
\* that subject, under the directory name as enumerated (leading zeros kept)
C13_OneFilePerSubject ==
    pc = "sessions_done" =>
        \A b \in Range(bids.subjects) : FileOf(written, b) = <<TableOf(b)>>

\* the sessions files as they were when the running call began
FilesAtStart == given[Len(given)]

\* the rows of the loaded specification whose pattern matches no clinical file
MissingRows ==
    LET spec == LoadSpecifications(specification).rows
    IN {i \in 1..Len(spec) : ~Glob(clinical, spec[i].location).exists}

\* C15: when the pattern of a mapped specification row matches no file of
\* the clinical directory, create_sessions_tsv_file does not succeed: it
\* raises FileNotFoundError, the message names the pattern and the
\* directory, and the sessions file of the subject being processed is as it
\* was before the call
C15_MissingClinicalFile ==
    (specification.exists /\ MissingRows # {} /\ bids.subjects # <<>>)
        => /\ pc # "sessions_done"
           /\ pc = "sessions_failed" =>
                 /\ err = "FileNotFoundError"
                 /\ \E i \in MissingRows :
                       /\ \A j \in MissingRows : i <= j
                       /\ errMsg = <<LoadSpecifications(specification).rows[i].location,
                                     "clinical_data_dir">>
                 /\ FileOf(written, bids.subjects[cursor])
                        = FileOf(FilesAtStart, bids.subjects[cursor])

\* the call failed on the ptdemog pattern after it had read the neurobat file
C15_Witness ==
    /\ pc = "sessions_failed"
    /\ err = "FileNotFoundError"
    /\ errMsg = <<"aibl_ptdemog_*.csv", "clinical_data_dir">>
    /\ probed = <<"aibl_neurobat_*.csv">>

\* the first subject whose file the failed call did not reach
FailedAt == IF cursor = 0 THEN 1 ELSE cursor

\* C17 as claimed: when the processing of subject k raises, the sessions
\* files of subject k and of the subjects after it are as they were before
\* the call, every file the call has written holds the whole table of a
\* subject before k, and the call ends with the error; a call that ends
\* without error has gone through every subject
C17_FailureStopsBeforeWriting ==
    /\ pc = "sessions_failed" =>
          /\ err # "no"
          /\ \A j \in FailedAt..Len(bids.subjects) :
                FileOf(written, bids.subjects[j]) = FileOf(FilesAtStart, bids.subjects[j])
          /\ \A b \in DOMAIN written :
                FileOf(written, b) # FileOf(FilesAtStart, b) =>
                    \E j \in 1..(cursor - 1) : written[b] = TableOf(bids.subjects[j])
    /\ pc = "sessions_done" => err = "no" /\ cursor = Len(bids.subjects) + 1

\* the name of the specification file the running function loads
SpecificationName ==
    IF pc \in {"call_sessions", "sessions_loop", "sessions_done", "sessions_failed"}
    THEN "sessions.tsv"
    ELSE IF pc \in {"call_participants", "participants_done", "participants_failed"}
    THEN "participant.tsv"
    ELSE "scans.tsv"

\* the output files are as they were when the running call began
OutputsUntouched ==
    IF SpecificationName = "sessions.tsv"
    THEN written = FilesAtStart /\ participantsTsv = AbsentFile /\ scansTsv = {}
    ELSE IF SpecificationName = "participant.tsv"
    THEN written = <<>> /\ participantsTsv = FilesAtStart /\ scansTsv = {}
    ELSE written = <<>> /\ participantsTsv = AbsentFile /\ scansTsv = FilesAtStart

\* C14: when the specification file is absent, each of the three functions
\* ends with FileNotFoundError, the message names the file and its path in
\* the specifications folder, no clinical file has been read and no output
\* file has been written or changed
C14_SpecificationNotFound ==
    ~specification.exists =>
        /\ pc \in {"call_sessions", "call_participants", "call_scans",
                   "sessions_failed", "participants_failed", "scans_failed"}
        /\ pc \in {"sessions_failed", "participants_failed", "scans_failed"} =>
              /\ err = "FileNotFoundError"
              /\ errMsg = <<SpecificationName,
                            <<"clinical_specifications_folder", SpecificationName>>>>
              /\ probed = <<>>
        /\ OutputsUntouched

\* create_participants_tsv_file failed on the missing specification: the
\* clinical file was there and the participants.tsv of an earlier run stays
C14_Witness ==
    /\ pc = "participants_failed"
    /\ ~specification.exists
    /\ err = "FileNotFoundError"
    /\ clinical["aibl_ptdemog_*.csv"].exists
    /\ participantsTsv = StaleParticipants

\* the patterns of the mapped fields of the specification file that match
\* no file of the clinical directory
MissingPatterns ==
    {specification.rows[i].location :
        i \in {j \in 1..Len(specification.rows) :
                  /\ specification.rows[j].field # ""
                  /\ ~Glob(clinical, specification.rows[j].location).exists}}

\* C16 as claimed: when the pattern of a mapped field matches no clinical
\* file, create_participants_tsv_file and create_scans_tsv_file fail with
\* FileNotFoundError and the message names the pattern and the directory
C16_MissingFileIsFileNotFound ==
    (/\ pc \in {"participants_failed", "scans_failed"}
     /\ specification.exists
     /\ MissingPatterns # {})
        => /\ err = "FileNotFoundError"
           /\ \E p \in MissingPatterns : errMsg = <<p, "clinical_data_dir">>

\* the sessions table the call leaves in the directory b: the table of the
\* last enumerated subject whose rebuilt identifier is b
Produced(b) ==
    LET spec == LoadSpecifications(specification).rows
        target(i) ==
            FromOriginalStudyId(
                "AIBL",
                StrOfNat(SessionsOf(bids.subjects[i], bids.sessions[bids.subjects[i]],
                                    spec, clinical).rid)).val.s
        sources == {i \in 1..Len(bids.subjects) : target(i) = b}
    IN IF sources = {} THEN FileOf(FilesAtStart, b)
       ELSE <<TableOf(bids.subjects[CHOOSE i \in sources : \A j \in sources : j <= i])>>

\* C18: a successful call leaves in every directory it writes to the table
\* computed from the inputs alone, whatever file was there before, and a
\* second call on the outputs of the first leaves the same files; the same
\* holds for participants.tsv
C18_RerunOverwrites ==
    /\ pc = "sessions_done" =>
          /\ \A b \in Range(bids.subjects) : FileOf(written, b) = Produced(b)
          /\ Len(given) = 2 => written = given[2]
    /\ pc = "participants_done" =>
          /\ \A out \in {ParticipantsOf(specification.rows, clinical)} :
                /\ participantsTsv.columns = out.columns
                /\ participantsTsv.rows = out.rows
          /\ Len(given) = 2 => participantsTsv = given[2]

\* the second call has ended on directories that held, before the first
\* call, a sessions file of an earlier run, which has been replaced
C18_Witness ==
    /\ pc = "sessions_done"
    /\ Len(given) = 2
    /\ \E b \in DOMAIN written :
          /\ FileOf(given[1], b) = <<StaleTable>>
          /\ Len(written[b].rows) > 0

\* the canonical names of the mapped fields, in the order of declaration
DeclaredFields ==
    LET mapped == SelectSeq2(specification.rows,
                             {i \in 1..Len(specification.rows) :
                                  specification.rows[i].field # ""},
                             1)
    IN [i \in 1..Len(mapped) |-> mapped[i].bids]

C20_OnlyBidsSubjects ==
    (pc = "participants_done" /\ delete_non_bids_info) =>
        \A j \in 1..Len(participantsTsv.rows) :
            participantsTsv.rows[j]["participant_id"].s \in Range(bids.subjects)

\* the ptdemog file of the clinical directory
Ptdemog == Glob(clinical, "aibl_ptdemog_*.csv")

\* C21 as claimed: participants.tsv has one row per subject, no two rows
\* carry the same participant_id
C21_OneRowPerSubject ==
    pc = "participants_done" =>
        \A i, j \in 1..Len(participantsTsv.rows) :
            i # j => participantsTsv.rows[i]["participant_id"]
                         # participantsTsv.rows[j]["participant_id"]

\* C22 as claimed: with the specification and the ptdemog file in place the
\* call does not raise on the identifier, whether the RID column holds
\* integers or, a cell being blank, floating point numbers; every
\* alternative_id_1 written is a string of digits or the marker n/a
C22_IdentifierCoercion ==
    /\ (pc = "participants_failed" /\ specification.exists /\ Ptdemog.exists)
          => err # "ValueError"
    /\ pc = "participants_done" =>
          \A j \in 1..Len(participantsTsv.rows) :
              LET id == participantsTsv.rows[j]["alternative_id_1"]
              IN id = NaStr \/ (id.kind = "str" /\ id.s # <<>> /\ AllDigits(id.s))

\* C23: every sex cell of participants.tsv is M when the PTGENDER cell of
\* its row is 1, F when it is 2, and n/a when it is -4 or blank
C23_SexLabels ==
    pc = "participants_done" =>
        \A j \in 1..Len(participantsTsv.rows) :
            participantsTsv.rows[j]["sex"] =
                (LET source == Ptdemog.rows[j].v["PTGENDER"]
                 IN IF source = <<"1">> THEN StrV(<<"M">>)
                    ELSE IF source = <<"2">> THEN StrV(<<"F">>)
                    ELSE NaStr)

\* a participants.tsv with a row whose gender cell is blank, written n/a,
\* next to a row of gender 1, written M
C23_Witness ==
    /\ pc = "participants_done"
    /\ \E i, j \in 1..Len(participantsTsv.rows) :
          /\ Ptdemog.rows[i].v["PTGENDER"] = <<>>
          /\ participantsTsv.rows[i]["sex"] = NaStr
          /\ Ptdemog.rows[j].v["PTGENDER"] = <<"1">>
          /\ participantsTsv.rows[j]["sex"] = StrV(<<"M">>)

\* C24 as claimed: no cell of participants.tsv is the sentinel or empty; a
\* cell whose source is the sentinel or blank is written n/a, the
\* date_of_birth too
C24_ParticipantsSentinels ==
    pc = "participants_done" =>
        \A j \in 1..Len(participantsTsv.rows) :
            /\ \A c \in DOMAIN participantsTsv.rows[j] :
                  /\ ~IsNull(participantsTsv.rows[j][c])
                  /\ participantsTsv.rows[j][c] # IntV(-4)
                  /\ participantsTsv.rows[j][c] # StrV(<<"-", "4">>)
            /\ Ptdemog.rows[j].v["PTDOB"] \in {<<>>, <<"-", "4">>}
                  => participantsTsv.rows[j]["date_of_birth"] = NaStr

\* C28 as claimed: when the extraction loop has run, the table that was in
\* memory at the extraction of each mapped field is the file at the
\* location the field declares
C28_TableOfOwnLocation ==
    pc = "participants_done" =>
        LET mapped == SelectSeq2(specification.rows,
                                 {i \in 1..Len(specification.rows) :
                                      specification.rows[i].field # ""},
                                 1)
        IN \A i \in 1..Len(mapped) :
               FileToRead(mapped, clinical, i) = Glob(clinical, mapped[i].location)

\* the tables of sessions files the state holds
TablesInFiles ==
    Range(written) \cup UNION {Range(given[k]) : k \in 1..Len(given)}

\* C25: on a table without the date_of_birth or the examination_date
\* column _set_age_from_birth raises ValueError, the message names both
\* columns and the table gets no age column; create_sessions_tsv_file on a
\* specification without one of the two fields fails at the first subject
\* and writes no sessions file (the ValueError of _set_age_from_birth when
\* the birth date is the one that lacks)
C25_MissingColumnsRaise ==
    pc \in {"sessions_loop", "sessions_done", "sessions_failed"} =>
        /\ \A t \in TablesInFiles :
              (~HasColumn(t, "date_of_birth") \/ ~HasColumn(t, "examination_date"))
                  => SetAgeFromBirth(t) =
                         [raised |-> "ValueError", df |-> t,
                          msg |-> <<"date_of_birth", "examination_date">>]
        /\ (/\ specification.exists
            /\ specification.rows \in SessionsSpecsLacking
            /\ MissingRows = {}
            /\ bids.subjects # <<>>)
              => /\ pc # "sessions_done"
                 /\ pc = "sessions_failed" =>
                       /\ written = FilesAtStart
                       /\ "date_of_birth" \notin Range(DeclaredFields)
                             => /\ err = "ValueError"
                                /\ errMsg = <<"date_of_birth", "examination_date">>

\* the call on a specification without the birth date has failed with the
\* ValueError of _set_age_from_birth and the files of an earlier run stay
C25_Witness ==
    /\ pc = "sessions_failed"
    /\ err = "ValueError"
    /\ errMsg = <<"date_of_birth", "examination_date">>
    /\ "date_of_birth" \notin Range(DeclaredFields)
    /\ written # <<>>
    /\ written = given[1]

\* the position of a pattern in the order the function probes them
ProbeRank(p) ==
    CASE p = "aibl_mri3meta_*.csv" -> 1
      [] p = "aibl_mrimeta_*.csv" -> 2
      [] p = "aibl_cdr_*.csv" -> 3
      [] p = "aibl_flutemeta_*.csv" -> 4
      [] p = "aibl_mmse_*.csv" -> 5
      [] p = "aibl_pibmeta_*.csv" -> 6
      [] OTHER -> 0

\* C26: _get_csv_files_for_alternative_exam_date yields the patterns that
\* match a file of the directory, each once, in the fixed order, and skips
\* the others without an error; the search reads a prefix of them, and on a
\* directory without any candidate file nothing is yielded and the search
\* returns None
C26_AbsentCandidatesSkipped ==
    pc \in {"find_done", "complete_done"} =>
        LET yielded == GetCsvFilesForAlternativeExamDate(clinical)
        IN /\ \A i \in 1..Len(yielded) :
                 /\ ProbeRank(yielded[i]) > 0
                 /\ Glob(clinical, yielded[i]).exists
           /\ \A i, j \in 1..Len(yielded) :
                 i < j => ProbeRank(yielded[i]) < ProbeRank(yielded[j])
           /\ \A p \in DOMAIN clinical :
                 (ProbeRank(p) > 0 /\ clinical[p].exists) => p \in Range(yielded)
           /\ Len(probed) <= Len(yielded)
           /\ probed = SubSeq(yielded, 1, Len(probed))
           /\ findRes.raised = "no"
           /\ (pc = "find_done" /\ yielded = <<>>) => findRes = Ret(NoneV) /\ probed = <<>>

\* the search went through a directory that holds the mri3meta and the cdr
\* file only, and found no date: both were read, in that order
C26_Witness ==
    /\ pc = "find_done"
    /\ probed = <<"aibl_mri3meta_*.csv", "aibl_cdr_*.csv">>
    /\ findRes = Ret(NoneV)

\* the number of a subject directory of the AIBL dataset
RidOf(b) == ParseNat(ToOriginalStudyId("AIBL", b))

\* C29: for every subject and every mapped field whose file exists,
\* _format_metadata_for_rid gives a table with the one column of the BIDS
\* name; its rows are the rows of the file with the RID of the subject, in
\* the order of the file; each is indexed by the session of its visit code
\* (bl gives ses-M000, m06 gives ses-M006) and holds the value of the source
\* field as read, a sentinel too
C29_MetadataOfRid ==
    (pc \in {"sessions_loop", "sessions_done", "sessions_failed"} /\ specification.exists) =>
        \A b \in Range(bids.subjects) :
            \A q \in 1..Len(LoadSpecifications(specification).rows) :
                LET row == LoadSpecifications(specification).rows[q]
                    input == ReadCsv(Glob(clinical, row.location))
                    out == FormatMetadataForRid(input, RidOf(b), row.bids, row.field)
                    own == {i \in 1..Len(input) : input[i].RID = RidOf(b)}
                    nth(k) == CHOOSE i \in own : Cardinality({j \in own : j <= i}) = k
                IN /\ out.columns = <<row.bids>>
                   /\ Len(out.rows) = Cardinality(own)
                   /\ Len(out.index) = Cardinality(own)
                   /\ \A k \in 1..Cardinality(own) :
                         /\ DOMAIN out.rows[k] = {row.bids}
                         /\ out.rows[k][row.bids] = input[nth(k)].v[row.field]
                         /\ out.index[k] = ViscodeToSession(input[nth(k)].VISCODE)
                         /\ input[nth(k)].VISCODE = Chars_bl => out.index[k] = SesM000
                         /\ input[nth(k)].VISCODE = Chars_m06 => out.index[k] = SesM006

\* the neurobat file that was read holds a sentinel row of the second visit
\* of subject 109 and a row of subject 1; the table of subject 109 has the
\* sentinel row alone
C29_Witness ==
    /\ pc = "sessions_done"
    /\ SubAIBL109 \in Range(bids.subjects)
    /\ "aibl_neurobat_*.csv" \in Range(probed)
    /\ LET input == ReadCsv(Glob(clinical, "aibl_neurobat_*.csv"))
           out == FormatMetadataForRid(input, 109, "examination_date", "EXAMDATE")
       IN /\ Len(input) = 2
          /\ \E i \in 1..2 : input[i].RID = 1
          /\ out.index = <<SesM006>>
          /\ out.rows[1]["examination_date"] = StrV(<<"-", "4">>)

\* no file of the clinical directory holds a row of the subject for the session
NoClinicalRow(rid, session_id) ==
    \A p \in DOMAIN clinical :
        \A i \in 1..Len(clinical[p].rows) :
            ~(/\ clinical[p].rows[i].RID = rid
              /\ ViscodeToSession(clinical[p].rows[i].VISCODE) = session_id)

\* C30: the sessions table written for a subject has one row for each
\* session directory of the subject and no other row, in ascending order of
\* session_id; the row of a session without any clinical row holds n/a in
\* every clinical field
C30_SessionsOfBidsLayout ==
    pc \in {"sessions_loop", "sessions_done", "sessions_failed"} =>
        \A i \in 1..(cursor - 1) :
            LET b == bids.subjects[i]
                t == TableOf(b)
            IN /\ Len(t.rows) = Len(bids.sessions[b])
               /\ {t.rows[k]["session_id"] : k \in 1..Len(t.rows)} = Range(bids.sessions[b])
               /\ \A k, l \in 1..Len(t.rows) :
                     k < l => StrLess(t.rows[k]["session_id"].s, t.rows[l]["session_id"].s)
               /\ \A k \in 1..Len(t.rows) :
                     NoClinicalRow(RidOf(b), t.rows[k]["session_id"]) =>
                         \A c \in Range(t.columns) \ {"session_id"} : t.rows[k][c] = NaStr

\* subject 109 has the session directories ses-M006 and ses-M000; the
\* clinical files hold a row of a visit of the subject that is no session
\* of the layout and none of the second visit: the table written has
\* ses-M000 first and n/a in the row of ses-M006
C30_Witness ==
    /\ pc = "sessions_done"
    /\ SubAIBL109 \in DOMAIN written
    /\ bids.sessions[SubAIBL109] = <<SesM006, SesM000>>
    /\ NoClinicalRow(109, SesM006)
    /\ \E i \in 1..Len(clinical["aibl_neurobat_*.csv"].rows) :
          /\ clinical["aibl_neurobat_*.csv"].rows[i].RID = 109
          /\ ViscodeToSession(clinical["aibl_neurobat_*.csv"].rows[i].VISCODE)
                 \notin Range(bids.sessions[SubAIBL109])
    /\ Len(written[SubAIBL109].rows) = 2
    /\ written[SubAIBL109].rows[1]["session_id"] = SesM000
    /\ written[SubAIBL109].rows[2]["examination_date"] = NaStr

\* the cells of a column of a clinical file in the rows of a subject,
\* without the sentinels and the blanks (every visit when session_id is
\* None, the visit of that session otherwise)
ValuesOf(pattern, column, rid, session_id) ==
    LET csv == ReadCsv(Glob(clinical, pattern))
    IN {csv[i].v[column] :
          i \in {j \in 1..Len(csv) :
                    /\ csv[j].RID = rid
                    /\ session_id # NoneV => ViscodeToSession(csv[j].VISCODE) = session_id
                    /\ ~IsSentinel(csv[j].v[column])
                    /\ ~IsNull(csv[j].v[column])}}

\* the row-level steps of create_sessions_tsv_file run in the order
\* sentinel replacement, exam-date completion, age derivation, drop: the
\* examination date written is the one of the neurobat file when it is no
\* sentinel, and else what the fallback search gives; the age is n/a when
\* the birth dates of the subject other than sentinels, in the rows to be
\* dropped too, are two or more, and an age written is the one computed
\* from the one birth date and the examination date as completed
SessionsStepOrder ==
    pc \in {"sessions_loop", "sessions_done", "sessions_failed"} =>
        \A i \in 1..(cursor - 1) :
            LET b == bids.subjects[i]
                t == TableOf(b)
                births == ValuesOf("aibl_ptdemog_*.csv", "PTDOB", RidOf(b), NoneV)
            IN \A k \in 1..Len(t.rows) :
                  LET ses == t.rows[k]["session_id"]
                      dated == ValuesOf("aibl_neurobat_*.csv", "EXAMDATE", RidOf(b), ses)
                      primary == IF dated = {} THEN NoneV ELSE CHOOSE c \in dated : TRUE
                      exam == CompleteExaminationDates(RidOf(b), clinical, ses, primary).val
                  IN /\ t.rows[k]["examination_date"] = (IF IsNull(exam) THEN NaStr ELSE exam)
                     /\ Cardinality(births) >= 2 => t.rows[k]["age"] = NaStr
                     /\ t.rows[k]["age"] # NaStr =>
                           /\ Cardinality(births) = 1
                           /\ \A birth \in births :
                                 t.rows[k]["age"] = ComputeAgeAtExam(birth, exam).val

\* every PTDOB cell of the ptdemog file is the sentinel, every RID is there
\* and the specification maps the three fields the function needs
OnlySentinelBirths ==
    /\ pc \in {"participants_done", "participants_failed"}
    /\ specification.exists
    /\ Ptdemog.exists
    /\ \A j \in 1..Len(Ptdemog.rows) :
          /\ Ptdemog.rows[j].v["PTDOB"] = <<"-", "4">>
          /\ Ptdemog.rows[j].v["RID"] # <<>>

====
